---- MODULE Spec2Model ----
(***************************************************************************)
(* State-machine model of troubleshootd: the test orchestration Manager    *)
(* (TestHost, Close), the per-address RHP4 probe pipeline and the older    *)
(* RHP2 probe, with the version comparator and the validation battery as   *)
(* operators.  Text is a sequence of one-character strings, a Currency is  *)
(* a little-endian sequence of 16-bit limbs (128 bits), time is an integer *)
(* number of seconds.                                                      *)
(***************************************************************************)
EXTENDS Integers, Sequences, FiniteSets, TLC

\* ------------------------------------------------------------------ bounds
MaxCalls == 2
MaxTime == 20
TickSize == 10
MaxAddrs == 2
MaxHeight == 11
MaxElapsed == 6

\* ------------------------------------------------------- program constants
CooldownWindow == 15
LegacyCooldownWindow == 10
minContractDuration == 144 * 30
tipTolerance == 3
NumLimbs == 8
LimbBase == 65536
QueryTimeout == 5

\* -------------------------------------------------------------------- text
Digits == <<"0", "1", "2", "3", "4", "5", "6", "7", "8", "9">>

IsDigit(ch) == \E i \in 1..10 : Digits[i] = ch

DigitVal(ch) == (CHOOSE i \in 1..10 : Digits[i] = ch) - 1

\* strings.Index(s, ch): 0-based position of the first ch, -1 when absent
Index(s, ch) ==
    IF \E i \in 1..Len(s) : s[i] = ch
    THEN (CHOOSE i \in 1..Len(s) : s[i] = ch /\ \A j \in 1..(i - 1) : s[j] # ch) - 1
    ELSE -1

RECURSIVE Split(_, _)
\* strings.Split(s, sep) for a one-character separator
Split(s, sep) ==
    LET p == Index(s, sep)
    IN  IF p < 0 THEN <<s>>
        ELSE <<SubSeq(s, 1, p)>> \o Split(SubSeq(s, p + 2, Len(s)), sep)

RECURSIVE Fields(_)
\* strings.Fields(s): the maximal runs of non-space characters
Fields(s) ==
    IF s = <<>> THEN <<>>
    ELSE IF Head(s) = " " THEN Fields(Tail(s))
    ELSE LET p == Index(s, " ")
         IN  IF p < 0 THEN <<s>>
             ELSE <<SubSeq(s, 1, p)>> \o Fields(SubSeq(s, p + 2, Len(s)))

RECURSIVE ParseUintAcc(_, _)
ParseUintAcc(s, acc) ==
    IF s = <<>> THEN acc
    ELSE IF acc > 255 THEN acc
    ELSE ParseUintAcc(Tail(s), acc * 10 + DigitVal(Head(s)))

\* a conversion that keeps the low eight bits of a number out of range
ParseUint8Wrapping(s) ==
    IF s = <<>> \/ \E i \in 1..Len(s) : ~IsDigit(s[i])
    THEN [ok |-> FALSE, val |-> 0]
    ELSE [ok |-> TRUE, val |-> ParseUintAcc(s, 0) % 256]

\* strconv.ParseUint(s, 10, 8)
ParseUint8(s) ==
    IF s = <<>> \/ \E i \in 1..Len(s) : ~IsDigit(s[i])
    THEN [ok |-> FALSE, val |-> 0]
    ELSE LET v == ParseUintAcc(s, 0)
         IN  IF v > 255 THEN [ok |-> FALSE, val |-> 0] ELSE [ok |-> TRUE, val |-> v]

\* ------------------------------------------------------------------ SemVer
ZeroSemVer == [version |-> <<0, 0, 0>>, suffix |-> <<>>]

\* SemVer.UnmarshalText applied to a zero SemVer
UnmarshalText(buf) ==
    IF Len(buf) = 0 THEN [ok |-> FALSE, v |-> ZeroSemVer]
    ELSE IF buf[1] # "v" THEN [ok |-> FALSE, v |-> ZeroSemVer]
    ELSE
      LET rest == Tail(buf)
          suffixPos == Index(rest, "-")
          suffix == IF suffixPos >= 0 THEN SubSeq(rest, suffixPos + 2, Len(rest)) ELSE <<>>
          version == IF suffixPos >= 0 THEN SubSeq(rest, 1, suffixPos) ELSE rest
          parts == Split(version, ".")
      IN  IF Len(parts) # 3 THEN [ok |-> FALSE, v |-> ZeroSemVer]
          ELSE
            LET major == ParseUint8(parts[1])
                minor == ParseUint8(parts[2])
                patch == ParseUint8(parts[3])
            IN  IF ~major.ok \/ ~minor.ok \/ ~patch.ok
                THEN [ok |-> FALSE, v |-> ZeroSemVer]
                ELSE [ok |-> TRUE,
                      v |-> [version |-> <<major.val, minor.val, patch.val>>,
                             suffix |-> suffix]]

\* fmt's %d verb applied to a byte
RECURSIVE Decimal(_)
Decimal(n) ==
    IF n < 10 THEN <<Digits[n + 1]>>
    ELSE Decimal(n \div 10) \o <<Digits[(n % 10) + 1]>>

\* the three components without the suffix
StringWithoutSuffix(v) ==
    <<"v">> \o Decimal(v.version[1]) \o <<".">> \o Decimal(v.version[2])
          \o <<".">> \o Decimal(v.version[3])

\* SemVer.String
String(v) ==
    LET triple == <<"v">> \o Decimal(v.version[1]) \o <<".">> \o Decimal(v.version[2])
                        \o <<".">> \o Decimal(v.version[3])
    IN  IF v.suffix # <<>> THEN triple \o <<"-">> \o v.suffix ELSE triple

\* a parse that reports success for every text
UnmarshalIntoAlways(v, buf) == [ok |-> TRUE, v |-> UnmarshalText(buf).v]

\* v.UnmarshalText(buf) on the receiver v: whether it returned nil, and the
\* receiver after the call (assigned on the last two lines only)
UnmarshalInto(v, buf) ==
    LET r == UnmarshalText(buf)
    IN  [ok |-> r.ok, v |-> IF r.ok THEN r.v ELSE v]

\* a comparison of the numeric components only
CmpComponentsOnly(v, b) ==
    IF v.version[1] # b.version[1] THEN v.version[1] - b.version[1]
    ELSE IF v.version[2] # b.version[2] THEN v.version[2] - b.version[2]
    ELSE v.version[3] - b.version[3]

\* SemVer.Cmp
Cmp(v, b) ==
    IF v.version[1] # b.version[1] THEN v.version[1] - b.version[1]
    ELSE IF v.version[2] # b.version[2] THEN v.version[2] - b.version[2]
    ELSE IF v.version[3] # b.version[3] THEN v.version[3] - b.version[3]
    ELSE IF v.suffix = <<>> /\ b.suffix # <<>> THEN 1
    ELSE IF v.suffix # <<>> /\ b.suffix = <<>> THEN -1
    ELSE 0

\* the whole string taken as the version
parseReleaseStringWhole(versionStr) == UnmarshalText(versionStr)

parseReleaseString(versionStr) ==
    LET parts == Fields(versionStr)
    IN  UnmarshalText(IF Len(parts) > 1 THEN parts[2] ELSE versionStr)

\* ---------------------------------------------------------------- Currency
ZeroCurrency == [i \in 1..NumLimbs |-> 0]

\* the Currency whose value is the small number n
CurrencyOf(n) == [i \in 1..NumLimbs |-> IF i = 1 THEN n % LimbBase
                                         ELSE IF i = 2 THEN n \div LimbBase ELSE 0]

\* 2^127 and 2^128 - 1
HalfCurrency == [i \in 1..NumLimbs |-> IF i = NumLimbs THEN LimbBase \div 2 ELSE 0]
MaxCurrency == [i \in 1..NumLimbs |-> LimbBase - 1]

IsZero(c) == \A i \in 1..NumLimbs : c[i] = 0

\* Currency.Cmp: -1, 0 or 1
CurrencyCmp(a, b) ==
    IF a = b THEN 0
    ELSE LET top == CHOOSE i \in 1..NumLimbs :
                        a[i] # b[i] /\ \A j \in (i + 1)..NumLimbs : a[j] = b[j]
         IN  IF a[top] < b[top] THEN -1 ELSE 1

RECURSIVE MulCarry(_, _, _)
\* the carry into limb i of c * v
MulCarry(c, v, i) ==
    IF i = 1 THEN 0 ELSE (c[i - 1] * v + MulCarry(c, v, i - 1)) \div LimbBase

\* Currency.Mul64 for a small factor v: the 128-bit product and whether it overflowed
\* (Mul64 panics on overflow)
Mul64(c, v) ==
    [val |-> [i \in 1..NumLimbs |-> (c[i] * v + MulCarry(c, v, i)) % LimbBase],
     overflow |-> MulCarry(c, v, NumLimbs + 1) # 0]

\* the difference taken in one direction only
deltaSigned(a, b) == a - b

\* delta(a, b) on unsigned integers
delta(a, b) == IF a < b THEN b - a ELSE a - b

\* ------------------------------------------------------------ host payloads
\* the zero value of proto4.HostSettings (the fields the validation reads)
ZeroSettings ==
    [AcceptingContracts |-> FALSE, MaxCollateral |-> ZeroCurrency,
     MaxContractDuration |-> 0, Collateral |-> ZeroCurrency,
     StoragePrice |-> ZeroCurrency, TipHeight |-> 0, Release |-> <<>>]

\* release strings a host may report
RelOld == <<"v", "1", ".", "5", ".", "0">>
RelNew == <<"h", "o", "s", "t", "d", " ", "v", "1", ".", "6", ".", "0">>

GoodSettings ==
    [AcceptingContracts |-> TRUE, MaxCollateral |-> CurrencyOf(100),
     MaxContractDuration |-> 4320, Collateral |-> CurrencyOf(25),
     StoragePrice |-> CurrencyOf(10), TipHeight |-> 10, Release |-> RelOld]

\* the empty RHP4Result
ZeroRHP4Result ==
    [NetAddress |-> [Address |-> "", Protocol |-> ""], ResolvedAddresses |-> <<>>,
     Connected |-> FALSE, DialTime |-> 0, Handshake |-> FALSE, HandshakeTime |-> 0,
     Scanned |-> FALSE, ScanTime |-> 0, Settings |-> <<>>,
     Errors |-> <<>>, Warnings |-> <<>>]

\* the empty RHP2Result and RHP3Result
ZeroRHP2Result ==
    [Connected |-> FALSE, DialTime |-> 0, Handshake |-> FALSE, HandshakeTime |-> 0,
     Scanned |-> FALSE, ScanTime |-> 0, ResolvedAddresses |-> <<>>, Settings |-> <<>>,
     Errors |-> <<>>, Warnings |-> <<>>]

ZeroRHP3Result ==
    [Connected |-> FALSE, DialTime |-> 0, Handshake |-> FALSE, HandshakeTime |-> 0,
     Scanned |-> FALSE, ScanTime |-> 0, PriceTable |-> <<>>,
     Errors |-> <<>>, Warnings |-> <<>>]

\* settings an RHP2 host may report, and a price table an RHP3 host may report
GoodSettings2 ==
    [AcceptingContracts |-> TRUE, NetAddress |-> "good.example:9982",
     MaxCollateral |-> CurrencyOf(100), Collateral |-> CurrencyOf(25),
     StoragePrice |-> CurrencyOf(10), MaxDuration |-> 4320, Release |-> RelOld,
     SiaMuxPort |-> "9983"]

GoodPriceTable ==
    [MaxCollateral |-> CurrencyOf(100), CollateralCost |-> CurrencyOf(25),
     WriteStoreCost |-> CurrencyOf(10), HostBlockHeight |-> 10]

\* net.SplitHostPort on the address strings of the model
SplitHostPort(addr) ==
    CASE addr = "good.example:9984" -> [ok |-> TRUE, host |-> "good.example", port |-> "9984"]
      [] addr = "good.example:9982" -> [ok |-> TRUE, host |-> "good.example", port |-> "9982"]
      [] addr = "other.example:9982" -> [ok |-> TRUE, host |-> "other.example", port |-> "9982"]
      [] OTHER -> [ok |-> FALSE, host |-> "", port |-> ""]

\* net.JoinHostPort for a host without a colon
JoinHostPort(host, port) == host \o ":" \o port

\* the IP literals a successful lookup of host returns
ResolvedIPs(host) == <<"192.0.2.1", "2001:db8::1">>

\* the user-facing error of dialContext for each cause of a failed dial
DialError(cause) ==
    CASE cause = "dns" -> "failed to resolve host: check DNS setup"
      [] cause = "refused" -> "connection refused: check if the service is running and port is forwarded"
      [] cause = "timeout" -> "timeout connecting: check port forwarding or firewall"
      [] OTHER -> "failed to connect to host"

DialFailures == {"dns", "refused", "timeout", "other"}

\* the collateral branch of a validation with its three warnings msgs: the
\* warnings it adds, and whether Mul64 overflowed (a panic)
CollateralCheckStorageFirst(collateral, storagePrice, msgs) ==
    IF CurrencyCmp(collateral, storagePrice) < 0
    THEN [warn |-> <<msgs[2]>>, panic |-> FALSE]
    ELSE IF IsZero(collateral)
    THEN [warn |-> <<msgs[1]>>, panic |-> FALSE]
    ELSE LET dbl == Mul64(storagePrice, 2)
         IN  IF dbl.overflow THEN [warn |-> <<>>, panic |-> TRUE]
             ELSE IF CurrencyCmp(dbl.val, collateral) > 0
             THEN [warn |-> <<msgs[3]>>, panic |-> FALSE]
             ELSE [warn |-> <<>>, panic |-> FALSE]

CollateralCheck(collateral, storagePrice, msgs) ==
    IF IsZero(collateral)
    THEN [warn |-> <<msgs[1]>>, panic |-> FALSE]
    ELSE IF CurrencyCmp(collateral, storagePrice) < 0
    THEN [warn |-> <<msgs[2]>>, panic |-> FALSE]
    ELSE LET dbl == Mul64(storagePrice, 2)
         IN  IF dbl.overflow THEN [warn |-> <<>>, panic |-> TRUE]
             ELSE IF CurrencyCmp(dbl.val, collateral) > 0
             THEN [warn |-> <<msgs[3]>>, panic |-> FALSE]
             ELSE [warn |-> <<>>, panic |-> FALSE]

\* no judgement on the release
VersionCheckSkipped(releaseStr, currentVersion) == <<>>

\* the version branch of the validation
VersionCheck(releaseStr, currentVersion) ==
    LET release == parseReleaseString(releaseStr)
    IN  IF ~release.ok THEN <<"host is running an unknown version">>
        ELSE IF Cmp(release.v, currentVersion) < 0 THEN <<"host is running an outdated version">>
        ELSE <<>>

\* testRHP4Transport: res after the settings query returned (settings, failed)
\* elapsed seconds after it was sent; panic when the validation aborts
testRHP4Transport(res, settings, failed, elapsed, currentVersion, tipHeight) ==
    LET errs1 == IF failed THEN Append(res.Errors, "failed to get settings") ELSE res.Errors
        w1 == IF ~settings.AcceptingContracts
              THEN <<"host is not accepting contracts">> ELSE <<>>
        w2 == IF IsZero(settings.MaxCollateral)
              THEN <<"host has no max collateral">> ELSE <<>>
        w3 == IF settings.MaxContractDuration < minContractDuration
              THEN <<"host has a max contract duration less than 1 month">> ELSE <<>>
        coll == CollateralCheck(settings.Collateral, settings.StoragePrice,
                    <<"host has no collateral price",
                      "host's collateral price is less than storage price",
                      "host's collateral price is less than double the storage price">>)
        errs2 == IF delta(settings.TipHeight, tipHeight) >= tipTolerance
                 THEN Append(errs1, "host's tip height is less than the current tip height")
                 ELSE errs1
        w5 == VersionCheck(settings.Release, currentVersion)
        scanned == [res EXCEPT !.ScanTime = elapsed, !.Scanned = TRUE,
                                !.Settings = <<settings>>]
    IN  IF coll.panic
        THEN [res |-> [scanned EXCEPT !.Errors = errs1,
                                      !.Warnings = res.Warnings \o w1 \o w2 \o w3],
              panic |-> TRUE]
        ELSE [res |-> [scanned EXCEPT !.Errors = errs2,
                                      !.Warnings = res.Warnings \o w1 \o w2 \o w3
                                                   \o coll.warn \o w5],
              panic |-> FALSE]

\* ------------------------------------------------------------ internal/dns
\* net.ParseIP, dotted-decimal form: four decimal fields of at most three
\* digits, each at most 255 and without a leading zero
ParseIPv4(s) ==
    \E parts \in {Split(s, ".")} :
        /\ Len(parts) = 4
        /\ \A k \in 1..4 :
              /\ Len(parts[k]) \in 1..3
              /\ ParseUint8(parts[k]).ok
              /\ (Len(parts[k]) > 1 => parts[k][1] # "0")

HexLetters == {"a", "b", "c", "d", "e", "f", "A", "B", "C", "D", "E", "F"}

IsHexGroup(g) ==
    Len(g) \in 1..4 /\ \A k \in 1..Len(g) : IsDigit(g[k]) \/ g[k] \in HexLetters

\* net.ParseIP, colon form without an embedded IPv4 address or a zone: eight
\* groups of hex digits, or fewer with one "::"
ParseIPv6(s) ==
    \E parts \in {Split(s, ":")} :
    LET n == Len(parts)
        lead == n >= 3 /\ parts[1] = <<>> /\ parts[2] = <<>>
        trail == n >= 3 /\ parts[n] = <<>> /\ parts[n - 1] = <<>>
        lo == IF lead THEN 2 ELSE 1
        hi == IF trail THEN n - 1 ELSE n
        empties == {k \in lo..hi : parts[k] = <<>>}
        groups == {k \in lo..hi : parts[k] # <<>>}
    IN  /\ n >= 3
        /\ lead \/ parts[1] # <<>>
        /\ trail \/ parts[n] # <<>>
        /\ \A k \in groups : IsHexGroup(parts[k])
        /\ \/ empties = {} /\ Cardinality(groups) = 8
           \/ Cardinality(empties) = 1 /\ Cardinality(groups) <= 7

ParseIPNever(s) == FALSE

\* net.ParseIP(s) # nil
ParseIP(s) == ParseIPv4(s) \/ ParseIPv6(s)

\* dns.Fqdn: the name with its trailing dot
Fqdn(hostname) ==
    IF hostname # <<>> /\ hostname[Len(hostname)] = "." THEN hostname
    ELSE Append(hostname, ".")

\* what the server holds for a name it does not know
EmptyRecord == [A |-> <<>>, AAAA |-> <<>>, CNAME |-> <<>>, fail |-> {}]

\* queryRecord: the answers of one exchange with the server, or an error
queryRecord(zone, hostname, recordType) ==
    LET name == Fqdn(hostname)
        rec == IF name \in DOMAIN zone THEN zone[name] ELSE EmptyRecord
    IN  [ok |-> recordType \notin rec.fail, results |-> rec[recordType]]

RECURSIVE SelectIPs(_)
\* the answers net.ParseIP accepts, in order
SelectIPs(rs) ==
    IF rs = <<>> THEN <<>>
    ELSE (IF ParseIP(Head(rs)) THEN <<Head(rs)>> ELSE <<>>) \o SelectIPs(Tail(rs))

resolveCNAMEsSkipped(zone, cname, depth, maxDepth, acc) == acc

RECURSIVE resolve(_, _, _, _)
RECURSIVE resolveCNAMEs(_, _, _, _, _)
\* the loop of resolve over the CNAME targets, acc being the result so far
resolveCNAMEs(zone, cname, depth, maxDepth, acc) ==
    IF cname = <<>> THEN acc
    ELSE LET sub == resolve(zone, Head(cname), depth + 1, maxDepth)
         IN  IF sub.err # ""
             THEN [ips |-> <<>>, err |-> sub.err, queries |-> acc.queries + sub.queries]
             ELSE resolveCNAMEs(zone, Tail(cname), depth, maxDepth,
                      [ips |-> acc.ips \o sub.ips, err |-> "",
                       queries |-> acc.queries + sub.queries])

\* resolve: the addresses, the cause of the error ("" for none) and the
\* number of queries sent
resolve(zone, hostname, depth, maxDepth) ==
    IF depth > maxDepth THEN [ips |-> <<>>, err |-> "depth", queries |-> 0]
    ELSE
      LET a == queryRecord(zone, hostname, "A")
          aaaa == queryRecord(zone, hostname, "AAAA")
          cname == queryRecord(zone, hostname, "CNAME")
      IN  IF ~a.ok THEN [ips |-> <<>>, err |-> "query", queries |-> 1]
          ELSE IF ~aaaa.ok THEN [ips |-> <<>>, err |-> "query", queries |-> 2]
          ELSE IF ~cname.ok THEN [ips |-> <<>>, err |-> "query", queries |-> 3]
          ELSE resolveCNAMEs(zone, cname.results, depth, maxDepth,
                   [ips |-> SelectIPs(a.results) \o SelectIPs(aaaa.results),
                    err |-> "", queries |-> 3])

\* the recursion bound LookupIP passes to resolve
maxDepth == 3

LookupIPDeeper(zone, hostname) ==
    LET r == resolve(zone, hostname, 0, maxDepth + 1)
    IN  IF r.err = "" /\ Len(r.ips) = 0 THEN [r EXCEPT !.err = "notfound"] ELSE r

\* dns.LookupIP; err "notfound" is ErrNotFound
LookupIP(zone, hostname) ==
    IF ParseIP(hostname) THEN [ips |-> <<hostname>>, err |-> "", queries |-> 0]
    ELSE LET r == resolve(zone, hostname, 0, maxDepth)
         IN  IF r.err # "" THEN [ips |-> <<>>, err |-> r.err, queries |-> r.queries]
             ELSE IF Len(r.ips) = 0
             THEN [ips |-> <<>>, err |-> "notfound", queries |-> r.queries]
             ELSE r

\* lookupIPs: the system resolver first (sys is its answer, <<>> when it
\* fails), then the fallback server
lookupIPs(zone, addr, sys) ==
    IF ParseIP(addr) THEN [ips |-> <<addr>>, err |-> "", queries |-> 0]
    ELSE IF sys # <<>> THEN [ips |-> sys, err |-> "", queries |-> 0]
    ELSE LookupIP(zone, addr)

\* the error testRHP4 records for a failed lookupIPs
ResolveError(err) ==
    IF err = "notfound"
    THEN "DNS lookup failed: check DNS records or wait for propagation"
    ELSE "failed to resolve host"

\* ------------------------------------------------------------------- state
VARIABLES
    now,            \* the clock, in seconds
    env,            \* the requests and host replies this run draws from
    tgStopped,      \* the thread group has been stopped (Close has begun)
    closed,         \* Close has returned
    mu,             \* the call holding Manager.mu, 0 when free
    latestRelease,  \* Manager.latestRelease
    state,          \* Manager.state: tip height and hard-fork allow height
    cooldown,       \* Manager.cooldown: public key -> expiry (0: no entry)
    calls,          \* each TestHost call: position, arguments, locals, error
    resp,           \* each TestHost call's Result
    probes,         \* each probe goroutine of a call: position and stage start
    oldgen,         \* the RHP2/RHP3 goroutine of a call: position and stage start
    panicked,       \* a goroutine panicked: the process has aborted
    hist,           \* history of each call's cooldown check
    bg,             \* the background refresh goroutine: position and fetched values
    dns,            \* a name resolution: server data, hostname, position, result
    sv              \* SemVer values and text under comparison and parsing

vars == <<now, env, tgStopped, closed, mu, latestRelease, state, cooldown,
          calls, resp, probes, oldgen, panicked, hist, bg, dns, sv>>

CallIds == 1..MaxCalls

Keys == {"k1", "k2"}

SiaMux == "siamux"
Quic == "quic"

\* the network addresses a Host may list
NetAddresses ==
    {[Address |-> "good.example:9984", Protocol |-> SiaMux],
     [Address |-> "good.example:9984", Protocol |-> Quic],
     [Address |-> "noport", Protocol |-> SiaMux],
     [Address |-> "good.example:9984", Protocol |-> "tcp"]}

RECURSIVE SeqsUpTo(_, _)
\* the sequences over S of length at most n
SeqsUpTo(S, n) ==
    IF n = 0 THEN {<<>>}
    ELSE LET shorter == SeqsUpTo(S, n - 1)
         IN  shorter \cup {Append(q, x) : q \in shorter, x \in S}

\* the empty Result; RHP2 and RHP3 are pointers, <<>> when nil
ZeroResult == [PublicKey |-> "", Version |-> <<>>, RHP2 |-> <<>>, RHP3 |-> <<>>,
               RHP4 |-> <<>>]

IdleCall ==
    [pc |-> "idle",
     host |-> [PublicKey |-> "", RHP2NetAddress |-> "", RHP4NetAddresses |-> <<>>],
     err |-> "", remaining |-> 0,
     latestRelease |-> ZeroSemVer, cs |-> [Height |-> 0, AllowHeight |-> 0],
     rhp4VersionSet |-> FALSE, rhp4Version |-> <<>>]

IdleHist ==
    [ticket |-> 0, checkT |-> 0, expiry |-> 0, startFree |-> FALSE, raced |-> FALSE,
     checkState |-> [Height |-> 0, AllowHeight |-> 0], checkRelease |-> ZeroSemVer,
     used |-> {}, assigned |-> 0, rhp3Addr |-> ""]

\* the cooldown window of the build
Window == IF env.legacy THEN LegacyCooldownWindow ELSE CooldownWindow

\* time.Until(m.cooldown[key]) > 0
OnCooldown(key) == cooldown[key] - now > 0

NewExpiryDoubled == now + 2 * Window

\* time.Now().Add(window)
NewExpiry == now + Window

\* every key of the map gets the new expiry
CooldownAfterAll(key) == [k \in Keys |-> NewExpiry]

\* m.cooldown[host.PublicKey] = time.Now().Add(window)
CooldownAfter(key) == [cooldown EXCEPT ![key] = NewExpiry]

CanLockAlways(c) == TRUE

\* m.mu.Lock() can return for call c
CanLock(c) == mu = 0

UnlockedNever(holder) == mu

\* m.mu.Unlock() by the task that holds the mutex
Unlocked(holder) == IF mu = holder THEN 0 ELSE mu

AddContextNeverFails == FALSE

\* m.tg.AddContext returns an error
AddContextFails == tgStopped

\* --------------------------------------------------- resolver inputs
MaxNames == 5

\* the i-th name the server knows, with its trailing dot
Name(i) == <<"h", Digits[i + 1], ".">>

IPv4Text == <<"1", "9", "2", ".", "0", ".", "2", ".", "1">>
IPv6Text == <<"2", "0", "0", "1", ":", "d", "b", "8", ":", ":", "1">>

\* what the server may hold for a name: nothing, addresses, an alias, an
\* alias whose A answer also carries the alias and the address behind it, an
\* address with a failing CNAME query, two aliases
RecordKinds == {"none", "addr", "cname", "flat", "failcname", "fork"}

RecordOf(kind, i) ==
    LET next == Name((i + 1) % MaxNames)
        next2 == Name((i + 2) % MaxNames)
    IN  CASE kind = "addr" -> [EmptyRecord EXCEPT !.A = <<IPv4Text>>, !.AAAA = <<IPv6Text>>]
          [] kind = "cname" -> [EmptyRecord EXCEPT !.CNAME = <<next>>]
          [] kind = "flat" -> [EmptyRecord EXCEPT !.A = <<next, IPv4Text>>, !.CNAME = <<next>>]
          [] kind = "failcname" -> [EmptyRecord EXCEPT !.A = <<IPv4Text>>, !.fail = {"CNAME"}]
          [] kind = "fork" -> [EmptyRecord EXCEPT !.CNAME = <<next, next2>>]
          [] OTHER -> EmptyRecord

\* the data of the server for a choice of kinds
ZoneOf(pick) ==
    [name \in {Name(i) : i \in 0..(MaxNames - 1)} |->
        LET i == CHOOSE k \in 0..(MaxNames - 1) : Name(k) = name
        IN  RecordOf(pick[i], i)]

NoLookup == [ips |-> <<>>, err |-> "", queries |-> 0]

DnsOff == [pc |-> "off", pick |-> [i \in 0..(MaxNames - 1) |-> "none"],
           hostname |-> <<>>, sys |-> <<>>, res |-> NoLookup, probeError |-> "",
           todo |-> <<>>, ips |-> <<>>, qstart |-> 0, sent |-> 0, slowest |-> 0,
           ctxDone |-> FALSE, after |-> 0]

\* a hostname to resolve against every server, and literal addresses
DnsInputs ==
    {[DnsOff EXCEPT !.pc = "idle", !.pick = p, !.hostname = <<"h", "0">>] :
        p \in [0..(MaxNames - 1) -> RecordKinds]}
    \cup {[DnsOff EXCEPT !.pc = "idle", !.pick = [i \in 0..(MaxNames - 1) |-> "failcname"],
                         !.hostname = h] :
            h \in {IPv4Text, IPv6Text, <<"2", "5", "6", ".", "1", ".", "1", ".", "1">>}}

\* servers for the stage run call by call: the first name holds any kind of
\* record, the names behind it all addresses or all aliases
ResolveInputs ==
    {[DnsOff EXCEPT !.pc = "idle", !.hostname = <<"h", "0">>,
                    !.pick = [i \in 0..(MaxNames - 1) |->
                                 IF i = 0 THEN first ELSE rest]] :
        first \in RecordKinds, rest \in {"addr", "cname"}}
    \cup {[DnsOff EXCEPT !.pc = "idle", !.hostname = IPv4Text]}

\* ----------------------------------------------------------- SemVer inputs
MaxPart == 2

NoParse == [ok |-> FALSE, v |-> ZeroSemVer]

SvOff == [pc |-> "off", a |-> ZeroSemVer, b |-> ZeroSemVer, c |-> ZeroSemVer,
          ab |-> 0, ba |-> 0, bc |-> 0, ac |-> 0,
          s |-> <<>>, parsed |-> NoParse, text |-> <<>>, again |-> NoParse,
          into |-> NoParse]

Suffixes == {<<>>, <<"r", "c", "1">>, <<"r", "c", "2">>}

\* SemVer values: the bytes of the three components and the suffix
SemVers ==
    {[version |-> <<major, minor, patch>>, suffix |-> suffix] :
        major \in {0, MaxPart}, minor \in {0, 255}, patch \in {0, 1},
        suffix \in Suffixes}

\* decimal numerals of a component in 0..255, with and without leading zeros
Numerals ==
    {<<"0">>, <<"7">>, <<"1", "9">>, <<"2", "5", "5">>, <<"0", "0", "7">>}

\* component texts ParseUint refuses: out of range, empty, not a number
BadNumerals == {<<"2", "5", "6">>, <<>>, <<"1", "a">>}

\* what follows the patch: nothing, or a dash and a suffix that may be empty
\* and may itself hold dashes and dots
SuffixTexts ==
    {<<>>, <<"-">>, <<"-", "r", "c", "1">>, <<"-", "r", "c", "-", "1">>,
     <<"-", "a", ".", "b">>, <<"-", "-">>}

VersionText(major, minor, patch, rest) ==
    <<"v">> \o major \o <<".">> \o minor \o <<".">> \o patch \o rest

\* texts of the shape vMAJOR.MINOR.PATCH[-suffix] with components in 0..255
ValidTexts ==
    {VersionText(major, minor, patch, rest) :
        major \in Numerals, minor \in Numerals, patch \in Numerals,
        rest \in SuffixTexts}

\* component texts above 255
OverflowNumerals == {<<"2", "5", "6">>, <<"1", "0", "0", "0">>}

\* texts of the shape vMAJOR.MINOR.PATCH[-suffix] with a component above 255
OverflowTexts ==
    {VersionText(major, minor, patch, rest) :
        major \in {<<"0">>, <<"2", "5", "5">>} \cup OverflowNumerals,
        minor \in {<<"0">>, <<"2", "5", "5">>} \cup OverflowNumerals,
        patch \in {<<"0">>, <<"2", "5", "5">>} \cup OverflowNumerals,
        rest \in {<<>>, <<"-", "r", "c", "1">>}}
    \ ValidTexts

\* the empty text, texts without the leading v, and texts without exactly
\* three dot-separated numbers
MalformedTexts ==
    {VersionText(major, minor, patch, rest) :
        major \in Numerals \cup BadNumerals, minor \in Numerals \cup BadNumerals,
        patch \in BadNumerals \ OverflowNumerals, rest \in {<<>>, <<"-", "r", "c", "1">>}}
    \cup {<<>>, <<"1", ".", "2", ".", "3">>, <<"V", "1", ".", "2", ".", "3">>,
          <<"v", "1", ".", "2">>, <<"v", "1", ".", "2", ".", "3", ".", "4">>,
          <<"v", "1", "-", "2", ".", "3">>, <<"v">>, <<"v", ".", ".">>}

\* texts of another shape
InvalidTexts == OverflowTexts \cup MalformedTexts

\* values a text is parsed into
Receivers ==
    {[version |-> <<MaxPart, 255, 1>>, suffix |-> <<"r", "c", "1">>],
     [version |-> <<1, 0, 0>>, suffix |-> <<>>]}

SvInputs ==
    {[SvOff EXCEPT !.pc = "idle", !.a = a, !.b = b, !.c = c] :
        a \in SemVers, b \in SemVers, c \in SemVers}
    \cup {[SvOff EXCEPT !.pc = "idle", !.s = s] : s \in ValidTexts \cup InvalidTexts}
    \cup {[SvOff EXCEPT !.pc = "idle", !.a = a, !.s = s] :
            a \in Receivers,
            s \in InvalidTexts \cup {<<"v", "0", ".", "0", ".", "7">>,
                                     <<"v", "2", "5", "5", ".", "0", ".", "0", "-">>}}

InFlight(c) == calls[c].pc \notin {"idle", "done"}

\* the height from which RHP2 and RHP3 are no longer tested: far ahead of the
\* tip, or within reach of it; the current build tests RHP4 alone
AllowHeightOf(e) ==
    IF ~e.legacy THEN 0
    ELSE IF e.scenario = "fork" THEN MaxHeight
    ELSE 100

\* the tags of the latest release the manager may hold when a scenario starts
LatestReleases(e) ==
    IF e.scenario = "validate"
    THEN {<<"v", "1", ".", "6", ".", "0">>,
          <<"v", "1", ".", "6", ".", "0", "-", "r", "c", "2">>}
    ELSE {<<"v", "1", ".", "6", ".", "0">>}

InitWith(e, t0) ==
    /\ now = t0
    /\ env = e
    /\ tgStopped = FALSE
    /\ closed = FALSE
    /\ mu = 0
    /\ latestRelease \in {UnmarshalText(t).v : t \in LatestReleases(e)}
    /\ state = [Height |-> 10, AllowHeight |-> AllowHeightOf(e)]
    /\ cooldown = [k \in Keys |-> 0]
    /\ calls = [c \in CallIds |-> IdleCall]
    /\ resp = [c \in CallIds |-> ZeroResult]
    /\ probes = [c \in CallIds |-> <<>>]
    /\ oldgen = [c \in CallIds |-> [pc |-> "none", start |-> 0]]
    /\ panicked = FALSE
    /\ hist = [c \in CallIds |-> IdleHist]
    /\ bg = [pc |-> "select", cs |-> 0, release |-> ZeroSemVer, warned |-> ""]
    /\ dns \in (CASE e.scenario = "dns" -> DnsInputs
                   [] e.scenario = "resolve" -> ResolveInputs
                   [] OTHER -> {DnsOff})
    /\ sv \in (IF e.scenario = "semver" THEN SvInputs ELSE {SvOff})

\* ------------------------------------------------------------------- clock
Tick ==
    /\ ~panicked
    /\ now + TickSize <= MaxTime
    /\ now' = now + TickSize
    /\ UNCHANGED <<env, tgStopped, closed, mu, latestRelease, state, cooldown,
                   calls, resp, probes, panicked, hist, oldgen, bg, dns, sv>>

\* --------------------------------------------------------- Manager.TestHost
\* m.tg.AddContext: the call is rejected once the thread group is stopped
TestHostStart(c, host) ==
    /\ ~panicked
    /\ calls[c].pc = "idle"
    /\ calls' = [calls EXCEPT ![c] =
                    IF AddContextFails
                    THEN [@ EXCEPT !.pc = "done", !.host = host, !.err = "threadgroup closed"]
                    ELSE [@ EXCEPT !.pc = "lock", !.host = host]]
    /\ hist' = [hist EXCEPT ![c].startFree = ~OnCooldown(host.PublicKey)]
    /\ UNCHANGED <<now, env, tgStopped, closed, mu, latestRelease, state, cooldown,
                   resp, probes, panicked, oldgen, bg, dns, sv>>

\* m.mu.Lock()
TestHostLock(c) ==
    /\ ~panicked
    /\ calls[c].pc = "lock"
    /\ CanLock(c)
    /\ mu' = c
    /\ calls' = [calls EXCEPT ![c].pc = "check"]
    /\ hist' = [hist EXCEPT ![c].ticket =
                    1 + Cardinality({d \in CallIds : hist[d].ticket > 0})]
    /\ UNCHANGED <<now, env, tgStopped, closed, latestRelease, state, cooldown,
                   resp, probes, panicked, oldgen, bg, dns, sv>>

\* the cooldown check: on cooldown the call unlocks and returns the error
TestHostCheck(c) ==
    /\ ~panicked
    /\ calls[c].pc = "check"
    /\ IF OnCooldown(calls[c].host.PublicKey)
       THEN /\ calls' = [calls EXCEPT ![c].pc = "done",
                                      ![c].err = "host is on cooldown",
                                      ![c].remaining = cooldown[calls[c].host.PublicKey] - now]
            /\ mu' = Unlocked(c)
       ELSE /\ calls' = [calls EXCEPT ![c].pc = "set"]
            /\ mu' = mu
    /\ hist' = [hist EXCEPT ![c].checkT = now,
                            ![c].checkState = state,
                            ![c].checkRelease = latestRelease]
    /\ UNCHANGED <<now, env, tgStopped, closed, latestRelease, state, cooldown,
                   resp, probes, panicked, oldgen, bg, dns, sv>>

\* the build tests RHP2 and RHP3 and the tip is below the v2 hard fork
\* RHP2 and RHP3 are tested at every height
TestsOldGenerationsAlways == env.legacy

TestsOldGenerations == env.legacy /\ state.Height < state.AllowHeight

\* the launch loop: the slot of a duplicate protocol gets an error and no
\* goroutine; rhp4Protos is the map the loop consults
RECURSIVE LaunchSlots(_, _, _)
LaunchSlots(addrs, i, rhp4Protos) ==
    IF i > Len(addrs) THEN <<>>
    ELSE <<IF addrs[i].Protocol \in rhp4Protos
           THEN [launched |-> FALSE,
                 res |-> [ZeroRHP4Result EXCEPT !.Errors = <<"duplicate protocol">>]]
           ELSE [launched |-> TRUE, res |-> ZeroRHP4Result]>>
         \o LaunchSlots(addrs, i + 1, rhp4Protos)

\* the new expiry is recorded, the cached state is snapshotted, the mutex is
\* released and one goroutine per address is launched
TestHostAccept(c) ==
    /\ ~panicked
    /\ calls[c].pc = "set"
    /\ LET host == calls[c].host
           slots == LaunchSlots(host.RHP4NetAddresses, 1, {})
       IN  /\ cooldown' = CooldownAfter(host.PublicKey)
           /\ calls' = [calls EXCEPT ![c].pc = "wait",
                                     ![c].latestRelease = latestRelease,
                                     ![c].cs = state]
           /\ resp' = [resp EXCEPT ![c] =
                          [PublicKey |-> host.PublicKey, Version |-> <<>>,
                           RHP2 |-> IF TestsOldGenerations THEN <<ZeroRHP2Result>> ELSE <<>>,
                           RHP3 |-> IF TestsOldGenerations THEN <<ZeroRHP3Result>> ELSE <<>>,
                           RHP4 |-> [i \in 1..Len(slots) |-> slots[i].res]]]
           /\ oldgen' = [oldgen EXCEPT ![c] =
                            [pc |-> IF TestsOldGenerations THEN "rhp2dial" ELSE "none",
                             start |-> now]]
           /\ probes' = [probes EXCEPT ![c] =
                            [i \in 1..Len(slots) |->
                                [pc |-> IF slots[i].launched THEN "start" ELSE "none",
                                 start |-> 0]]]
           /\ hist' = [d \in CallIds |->
                          IF d = c THEN [hist[d] EXCEPT !.expiry = NewExpiry]
                          ELSE IF /\ calls[d].pc \in {"lock", "check"}
                                  /\ calls[d].host.PublicKey = host.PublicKey
                               THEN [hist[d] EXCEPT !.raced = TRUE]
                               ELSE hist[d]]
    /\ mu' = Unlocked(c)
    /\ UNCHANGED <<now, env, tgStopped, closed, latestRelease, state, panicked, bg, dns, sv>>

RECURSIVE FirstRelease(_, _)
\* the release of the first slot whose settings are set, "" when there is none
FirstRelease(rhp4, i) ==
    IF i > Len(rhp4) THEN <<>>
    ELSE IF rhp4[i].Settings # <<>> THEN rhp4[i].Settings[1].Release
    ELSE FirstRelease(rhp4, i + 1)

\* the version of the Result: the first RHP4 settings when RHP4 addresses
\* were given, else the RHP2 settings of the build that tests RHP2
AggregateVersion(r) ==
    IF Len(r.RHP4) # 0 THEN FirstRelease(r.RHP4, 1)
    ELSE IF env.legacy /\ r.RHP2 # <<>> /\ r.RHP2[1].Settings # <<>>
    THEN r.RHP2[1].Settings[1].Release
    ELSE <<>>

\* wg.Wait() has returned: the aggregate version is derived, the call returns
TestHostFinish(c) ==
    /\ ~panicked
    /\ calls[c].pc = "wait"
    /\ \A i \in 1..Len(probes[c]) : probes[c][i].pc \in {"none", "done"}
    /\ oldgen[c].pc \in {"none", "done"}
    /\ resp' = [resp EXCEPT ![c].Version = AggregateVersion(resp[c])]
    /\ calls' = [calls EXCEPT ![c].pc = "done"]
    /\ UNCHANGED <<now, env, tgStopped, closed, mu, latestRelease, state, cooldown,
                   probes, panicked, hist, oldgen, bg, dns, sv>>

\* ------------------------------------------------------------ Manager.Close
WaitGroupEmptyAlways == TRUE

\* the wait group of the thread group is at zero: every context added by a
\* TestHost call or by NewManager has been released
WaitGroupEmpty == bg.pc = "exited" /\ \A c \in CallIds : ~InFlight(c)

\* tg.Stop() marks the group stopped, then waits for every added context
CloseBegin ==
    /\ ~panicked
    /\ ~tgStopped
    /\ tgStopped' = TRUE
    /\ UNCHANGED <<now, env, closed, mu, latestRelease, state, cooldown, calls,
                   resp, probes, panicked, hist, oldgen, bg, dns, sv>>

CloseReturn ==
    /\ ~panicked
    /\ tgStopped
    /\ ~closed
    /\ WaitGroupEmpty
    /\ closed' = TRUE
    /\ UNCHANGED <<now, env, tgStopped, mu, latestRelease, state, cooldown, calls,
                   resp, probes, panicked, hist, oldgen, bg, dns, sv>>

\* ------------------------------------------------- the background goroutine
\* the holder of Manager.mu when the background goroutine has it
Background == 0 - 1

BgUnchanged ==
    UNCHANGED <<now, env, tgStopped, closed, cooldown, calls, resp, probes, oldgen,
                panicked, hist, dns, sv>>

\* the stateTicker case is selected: explorer.ConsensusState() is called
StateTick ==
    /\ ~panicked
    /\ bg.pc = "select"
    /\ bg' = [bg EXCEPT !.pc = "stateFetch"]
    /\ UNCHANGED <<mu, latestRelease, state>>
    /\ BgUnchanged

\* explorer.ConsensusState() has returned: an error is logged and the loop
\* continues, a state of height h is kept for the store
StateFetched(ok, h) ==
    /\ ~panicked
    /\ bg.pc = "stateFetch"
    /\ bg' = IF ok THEN [bg EXCEPT !.pc = "stateLock", !.cs = h]
                   ELSE [bg EXCEPT !.pc = "select",
                                   !.warned = "failed to update tip state"]
    /\ UNCHANGED <<mu, latestRelease, state>>
    /\ BgUnchanged

\* m.mu.Lock() before m.state = cs
RefreshStateLock ==
    /\ ~panicked
    /\ bg.pc = "stateLock"
    /\ mu = 0
    /\ mu' = Background
    /\ bg' = [bg EXCEPT !.pc = "stateStore"]
    /\ UNCHANGED <<latestRelease, state>>
    /\ BgUnchanged

\* m.state = cs; m.mu.Unlock()
RefreshState ==
    /\ ~panicked
    /\ bg.pc = "stateStore"
    /\ state' = [state EXCEPT !.Height = bg.cs]
    /\ mu' = Unlocked(Background)
    /\ bg' = [bg EXCEPT !.pc = "select", !.cs = 0]
    /\ UNCHANGED latestRelease
    /\ BgUnchanged

\* the versionTicker case is selected: github.LatestRelease is called
VersionTick ==
    /\ ~panicked
    /\ bg.pc = "select"
    /\ bg' = [bg EXCEPT !.pc = "releaseFetch"]
    /\ UNCHANGED <<mu, latestRelease, state>>
    /\ BgUnchanged

\* github.LatestRelease has returned: an error, or a release string that
\* does not parse, is logged and the loop continues; a release that parses is
\* kept for the store
ReleaseFetched(ok, releaseStr) ==
    /\ ~panicked
    /\ bg.pc = "releaseFetch"
    /\ LET release == UnmarshalInto(ZeroSemVer, releaseStr)
       IN  bg' = IF ~ok
                 THEN [bg EXCEPT !.pc = "select",
                                 !.warned = "failed to update latest release"]
                 ELSE IF ~release.ok
                 THEN [bg EXCEPT !.pc = "select",
                                 !.warned = "failed to unmarshal latest release"]
                 ELSE [bg EXCEPT !.pc = "releaseLock", !.release = release.v]
    /\ UNCHANGED <<mu, latestRelease, state>>
    /\ BgUnchanged

\* m.mu.Lock() before m.latestRelease = release
RefreshReleaseLock ==
    /\ ~panicked
    /\ bg.pc = "releaseLock"
    /\ mu = 0
    /\ mu' = Background
    /\ bg' = [bg EXCEPT !.pc = "releaseStore"]
    /\ UNCHANGED <<latestRelease, state>>
    /\ BgUnchanged

\* m.latestRelease = release; m.mu.Unlock()
RefreshRelease ==
    /\ ~panicked
    /\ bg.pc = "releaseStore"
    /\ latestRelease' = bg.release
    /\ mu' = Unlocked(Background)
    /\ bg' = [bg EXCEPT !.pc = "select", !.release = ZeroSemVer]
    /\ UNCHANGED state
    /\ BgUnchanged

\* the ctx.Done case is selected: the goroutine returns and releases its context
BackgroundExit ==
    /\ ~panicked
    /\ bg.pc = "select"
    /\ tgStopped
    /\ bg' = [bg EXCEPT !.pc = "exited"]
    /\ UNCHANGED <<now, env, tgStopped, closed, mu, latestRelease, state, cooldown,
                   calls, resp, probes, oldgen, panicked, hist, dns, sv>>

\* ------------------------------------------------------- the RHP4 goroutine
Probe(c, i) == probes[c][i]
Res(c, i) == resp[c].RHP4[i]
AddrLast(c, i) == calls[c].host.RHP4NetAddresses[Len(calls[c].host.RHP4NetAddresses)]

\* the address handed to the goroutine of slot i
Addr(c, i) == calls[c].host.RHP4NetAddresses[i]

\* the last slot, whichever goroutine writes
SlotLast(c, i) == Len(resp[c].RHP4)

\* &resp.RHP4[i], with the i the goroutine was started with
Slot(c, i) == i

\* the goroutine of slot i moves to pc with stage start st and result r
ProbeStep(c, i, pc, st, r) ==
    /\ probes' = [probes EXCEPT ![c][i] = [pc |-> pc, start |-> st]]
    /\ resp' = [resp EXCEPT ![c].RHP4[Slot(c, i)] = r]

\* testRHP4 up to the lookup: the address is recorded and split
ProbeStart(c, i) ==
    /\ ~panicked
    /\ i \in 1..Len(probes[c])
    /\ Probe(c, i).pc = "start"
    /\ LET r == [Res(c, i) EXCEPT !.NetAddress = Addr(c, i)]
       IN  IF SplitHostPort(Addr(c, i).Address).ok
           THEN ProbeStep(c, i, "resolve", 0, r)
           ELSE ProbeStep(c, i, "done", 0,
                          [r EXCEPT !.Errors = Append(@, "failed to parse net address")])
    /\ UNCHANGED <<now, env, tgStopped, closed, mu, latestRelease, state, cooldown,
                   calls, panicked, hist, oldgen, bg, dns, sv>>

LookupOutcomes == {"ok", "notfound", "error"}

\* lookupIPs has returned; on success the protocol switch starts the dial
ProbeResolve(c, i, outcome) ==
    /\ ~panicked
    /\ i \in 1..Len(probes[c])
    /\ Probe(c, i).pc = "resolve"
    /\ LET r == Res(c, i)
           host == SplitHostPort(Addr(c, i).Address).host
       IN  CASE outcome = "notfound" ->
                  ProbeStep(c, i, "done", 0,
                      [r EXCEPT !.Errors = Append(@, "DNS lookup failed: check DNS records or wait for propagation")])
             [] outcome = "error" ->
                  ProbeStep(c, i, "done", 0,
                      [r EXCEPT !.Errors = Append(@, "failed to resolve host")])
             [] OTHER ->
                  LET r1 == [r EXCEPT !.ResolvedAddresses = @ \o ResolvedIPs(host)]
                  IN  CASE Addr(c, i).Protocol = SiaMux -> ProbeStep(c, i, "dial", now, r1)
                        [] Addr(c, i).Protocol = Quic -> ProbeStep(c, i, "quicdial", now, r1)
                        [] OTHER -> ProbeStep(c, i, "done", 0,
                                       [r1 EXCEPT !.Errors = Append(@, "unknown protocol")])
    /\ UNCHANGED <<now, env, tgStopped, closed, mu, latestRelease, state, cooldown,
                   calls, panicked, hist, oldgen, bg, dns, sv>>

\* testRHP4SiaMux: the TCP dial has returned
ProbeDial(c, i, outcome) ==
    /\ ~panicked
    /\ i \in 1..Len(probes[c])
    /\ Probe(c, i).pc = "dial"
    /\ IF outcome = "ok"
       THEN ProbeStep(c, i, "handshake", now,
                [Res(c, i) EXCEPT !.DialTime = now - Probe(c, i).start, !.Connected = TRUE])
       ELSE ProbeStep(c, i, "done", 0,
                [Res(c, i) EXCEPT !.Errors = Append(@, DialError(outcome))])
    /\ UNCHANGED <<now, env, tgStopped, closed, mu, latestRelease, state, cooldown,
                   calls, panicked, hist, oldgen, bg, dns, sv>>

\* testRHP4SiaMux: siamux.Upgrade has returned
ProbeUpgrade(c, i, ok) ==
    /\ ~panicked
    /\ i \in 1..Len(probes[c])
    /\ Probe(c, i).pc = "handshake"
    /\ IF ok
       THEN ProbeStep(c, i, "scan", now,
                [Res(c, i) EXCEPT !.HandshakeTime = now - Probe(c, i).start,
                                  !.Handshake = TRUE])
       ELSE ProbeStep(c, i, "done", 0,
                [Res(c, i) EXCEPT !.Errors = Append(@, "failed to connect to siamux")])
    /\ UNCHANGED <<now, env, tgStopped, closed, mu, latestRelease, state, cooldown,
                   calls, panicked, hist, oldgen, bg, dns, sv>>

QuicDialOutcomes == {"ok", "no recent network activity", "other"}

IsIdleTimeoutNever(outcome) == FALSE

\* strings.Contains(err.Error(), "no recent network activity")
IsIdleTimeout(outcome) == outcome = "no recent network activity"

\* testRHP4Quic: quic.Dial has returned
ProbeQuicDial(c, i, outcome) ==
    /\ ~panicked
    /\ i \in 1..Len(probes[c])
    /\ Probe(c, i).pc = "quicdial"
    /\ CASE outcome = "ok" ->
              ProbeStep(c, i, "scan", now,
                  [Res(c, i) EXCEPT !.HandshakeTime = now - Probe(c, i).start,
                                    !.Connected = TRUE, !.Handshake = TRUE])
         [] IsIdleTimeout(outcome) ->
              ProbeStep(c, i, "done", 0,
                  [Res(c, i) EXCEPT !.Errors = Append(@,
                      "failed to connect to quic: check port forwarding and firewall settings for UDP port")])
         [] OTHER ->
              ProbeStep(c, i, "done", 0,
                  [Res(c, i) EXCEPT !.Errors = Append(@, "failed to connect to quic")])
    /\ UNCHANGED <<now, env, tgStopped, closed, mu, latestRelease, state, cooldown,
                   calls, panicked, hist, oldgen, bg, dns, sv>>

\* the fields of the Manager as they are when the probe validates
ManagerFields(c) == [latestRelease |-> latestRelease, cs |-> state]

\* the arguments latestRelease and cs.Index of the goroutines of call c: the
\* locals TestHost copied from the Manager under the mutex
Snapshot(c) == [latestRelease |-> calls[c].latestRelease, cs |-> calls[c].cs]

\* testRHP4Transport: RPCSettings has returned, the payload is validated
ProbeScan(c, i, failed, settings) ==
    /\ ~panicked
    /\ i \in 1..Len(probes[c])
    /\ Probe(c, i).pc = "scan"
    /\ failed => settings = ZeroSettings
    /\ LET out == testRHP4Transport(Res(c, i), settings, failed,
                                    now - Probe(c, i).start,
                                    Snapshot(c).latestRelease, Snapshot(c).cs.Height)
       IN  /\ ProbeStep(c, i,
                        IF out.panic THEN "scan"
                        ELSE IF out.res.Settings # <<>> THEN "sticky" ELSE "done",
                        0, out.res)
           /\ panicked' = out.panic
    /\ hist' = [hist EXCEPT ![c].used = @ \cup {Snapshot(c)}]
    /\ UNCHANGED <<now, env, tgStopped, closed, mu, latestRelease, state, cooldown,
                   calls, oldgen, bg, dns, sv>>

OnceDoneNever(c) == FALSE

\* rhp4VersionSet (a sync.Once) has run its function
OnceDone(c) == calls[c].rhp4VersionSet

\* the sticky version check of the goroutine, then wg.Done(): Do runs the
\* assignment unless it has run, and returns after the assignment is complete
ProbeSticky(c, i) ==
    /\ ~panicked
    /\ i \in 1..Len(probes[c])
    /\ Probe(c, i).pc = "sticky"
    /\ LET release == Res(c, i).Settings[1].Release
           rhp4Version == IF OnceDone(c) THEN calls[c].rhp4Version ELSE release
       IN  /\ calls' = [calls EXCEPT ![c].rhp4VersionSet = TRUE,
                                     ![c].rhp4Version = rhp4Version]
           /\ hist' = [hist EXCEPT ![c].assigned = IF OnceDone(c) THEN @ ELSE @ + 1]
           /\ ProbeStep(c, i, "done", 0,
                  IF release # rhp4Version
                  THEN [Res(c, i) EXCEPT !.Errors =
                           Append(@, "host is reporting multiple versions")]
                  ELSE Res(c, i))
    /\ UNCHANGED <<now, env, tgStopped, closed, mu, latestRelease, state, cooldown,
                   panicked, oldgen, bg, dns, sv>>

\* ------------------------------------------------- the RHP2/RHP3 goroutine
OldCollateralMsgs ==
    <<"collateral is zero", "collateral should be greater than storage price",
      "collateral should be at least double the storage price">>

\* no judgement on the announced address
AddressCheckSkipped(announced, dialed) == <<>>

\* the address branch of the validation of testRHP2
AddressCheck(announced, dialed) ==
    IF announced # dialed
    THEN <<"announced net address does not match settings">> ELSE <<>>

\* the validation of testRHP2 on scanned settings
ValidateRHP2(res, settings, rhp2NetAddress, currentVersion) ==
    LET w1 == IF ~settings.AcceptingContracts
              THEN <<"host is not accepting contracts">> ELSE <<>>
        w2 == AddressCheck(settings.NetAddress, rhp2NetAddress)
        w3 == IF IsZero(settings.MaxCollateral) THEN <<"max collateral is zero">> ELSE <<>>
        coll == CollateralCheck(settings.Collateral, settings.StoragePrice, OldCollateralMsgs)
        w5 == IF settings.MaxDuration < minContractDuration
              THEN <<"max duration is less than 30 days">> ELSE <<>>
        w6 == VersionCheck(settings.Release, currentVersion)
    IN  IF coll.panic
        THEN [res |-> [res EXCEPT !.Warnings = @ \o w1 \o w2 \o w3], panic |-> TRUE]
        ELSE [res |-> [res EXCEPT !.Warnings = @ \o w1 \o w2 \o w3 \o coll.warn \o w5 \o w6],
              panic |-> FALSE]

\* the validation of testRHP3 on a scanned price table
ValidateRHP3(res, pt, height) ==
    LET w1 == IF IsZero(pt.MaxCollateral) THEN <<"max collateral is zero">> ELSE <<>>
        coll == CollateralCheck(pt.CollateralCost, pt.WriteStoreCost, OldCollateralMsgs)
        w3 == IF pt.HostBlockHeight < height
              THEN <<"host is behind consensus">> ELSE <<>>
    IN  IF coll.panic
        THEN [res |-> [res EXCEPT !.Warnings = @ \o w1], panic |-> TRUE]
        ELSE [res |-> [res EXCEPT !.Warnings = @ \o w1 \o coll.warn \o w3], panic |-> FALSE]

\* the RHP2/RHP3 goroutine of call c moves to pc with stage start st and results
OldStep(c, pc, st, r2, r3) ==
    /\ oldgen' = [oldgen EXCEPT ![c] = [pc |-> pc, start |-> st]]
    /\ resp' = [resp EXCEPT ![c].RHP2 = <<r2>>, ![c].RHP3 = <<r3>>]

\* testRHP2: the TCP dial has returned; the address is split
RHP2Dial(c, outcome) ==
    /\ ~panicked
    /\ oldgen[c].pc = "rhp2dial"
    /\ LET r2 == resp[c].RHP2[1]
           r3 == resp[c].RHP3[1]
           connected == [r2 EXCEPT !.DialTime = now - oldgen[c].start, !.Connected = TRUE]
       IN  IF outcome # "ok"
           THEN OldStep(c, "done", 0, [r2 EXCEPT !.Errors = Append(@, DialError(outcome))], r3)
           ELSE IF ~SplitHostPort(calls[c].host.RHP2NetAddress).ok
           THEN OldStep(c, "done", 0,
                    [connected EXCEPT !.Errors = Append(@, "failed to parse net address")], r3)
           ELSE OldStep(c, "rhp2lookup", 0, connected, r3)
    /\ UNCHANGED <<now, env, tgStopped, closed, mu, latestRelease, state, cooldown,
                   calls, probes, panicked, hist, bg, dns, sv>>

\* testRHP2: net.LookupIP has returned
RHP2Lookup(c, ok) ==
    /\ ~panicked
    /\ oldgen[c].pc = "rhp2lookup"
    /\ LET r2 == resp[c].RHP2[1]
           host == SplitHostPort(calls[c].host.RHP2NetAddress).host
       IN  IF ok
           THEN OldStep(c, "rhp2handshake", now,
                    [r2 EXCEPT !.ResolvedAddresses = @ \o ResolvedIPs(host)], resp[c].RHP3[1])
           ELSE OldStep(c, "done", 0,
                    [r2 EXCEPT !.Errors = Append(@, "failed to resolve host")], resp[c].RHP3[1])
    /\ UNCHANGED <<now, env, tgStopped, closed, mu, latestRelease, state, cooldown,
                   calls, probes, panicked, hist, bg, dns, sv>>

\* testRHP2: proto2.NewRenterTransport has returned
RHP2Handshake(c, ok) ==
    /\ ~panicked
    /\ oldgen[c].pc = "rhp2handshake"
    /\ LET r2 == resp[c].RHP2[1]
       IN  IF ok
           THEN OldStep(c, "rhp2scan", now,
                    [r2 EXCEPT !.HandshakeTime = now - oldgen[c].start, !.Handshake = TRUE],
                    resp[c].RHP3[1])
           ELSE OldStep(c, "done", 0,
                    [r2 EXCEPT !.Errors = Append(@, "failed to create transport")],
                    resp[c].RHP3[1])
    /\ UNCHANGED <<now, env, tgStopped, closed, mu, latestRelease, state, cooldown,
                   calls, probes, panicked, hist, bg, dns, sv>>

\* the address of the RHP2 settings with its own port
rhp3AddrSamePort(settings) ==
    JoinHostPort(SplitHostPort(settings.NetAddress).host,
                 SplitHostPort(settings.NetAddress).port)

\* the address testRHP3 is given: the host of the announced net address and
\* the mux port of the settings
rhp3Addr(settings) ==
    JoinHostPort(SplitHostPort(settings.NetAddress).host, settings.SiaMuxPort)

\* testRHP2: the settings RPC has returned; on success the settings are
\* validated and the goroutine builds the RHP3 address from them
RHP2Scan(c, failed, settings) ==
    /\ ~panicked
    /\ oldgen[c].pc = "rhp2scan"
    /\ LET r2 == resp[c].RHP2[1]
           r3 == resp[c].RHP3[1]
           scanned == [r2 EXCEPT !.ScanTime = now - oldgen[c].start, !.Scanned = TRUE,
                                 !.Settings = <<settings>>]
           out == ValidateRHP2(scanned, settings, calls[c].host.RHP2NetAddress,
                               calls[c].latestRelease)
       IN  IF failed
           THEN /\ OldStep(c, "done", 0,
                       [r2 EXCEPT !.Errors = Append(@, "failed to get settings")], r3)
                /\ panicked' = FALSE
           ELSE /\ panicked' = out.panic
                /\ IF out.panic THEN OldStep(c, "rhp2scan", 0, out.res, r3)
                   ELSE IF ~SplitHostPort(settings.NetAddress).ok
                   THEN OldStep(c, "done", 0, out.res,
                            [r3 EXCEPT !.Errors = Append(@, "failed to parse net address")])
                   ELSE OldStep(c, "rhp3dial", now, out.res, r3)
    /\ hist' = [hist EXCEPT ![c].rhp3Addr =
                    IF ~failed /\ SplitHostPort(settings.NetAddress).ok
                    THEN rhp3Addr(settings) ELSE @]
    /\ UNCHANGED <<now, env, tgStopped, closed, mu, latestRelease, state, cooldown,
                   calls, probes, bg, dns, sv>>

\* testRHP3: the TCP dial has returned
RHP3Dial(c, outcome) ==
    /\ ~panicked
    /\ oldgen[c].pc = "rhp3dial"
    /\ LET r3 == resp[c].RHP3[1]
       IN  IF outcome = "ok"
           THEN OldStep(c, "rhp3handshake", now, resp[c].RHP2[1],
                    [r3 EXCEPT !.DialTime = now - oldgen[c].start, !.Connected = TRUE])
           ELSE OldStep(c, "done", 0, resp[c].RHP2[1],
                    [r3 EXCEPT !.Errors = Append(@, DialError(outcome))])
    /\ UNCHANGED <<now, env, tgStopped, closed, mu, latestRelease, state, cooldown,
                   calls, probes, panicked, hist, bg, dns, sv>>

\* testRHP3: proto3.NewRenterTransport has returned
RHP3Handshake(c, ok) ==
    /\ ~panicked
    /\ oldgen[c].pc = "rhp3handshake"
    /\ LET r3 == resp[c].RHP3[1]
       IN  IF ok
           THEN OldStep(c, "rhp3scan", now, resp[c].RHP2[1],
                    [r3 EXCEPT !.HandshakeTime = now - oldgen[c].start, !.Handshake = TRUE])
           ELSE OldStep(c, "done", 0, resp[c].RHP2[1],
                    [r3 EXCEPT !.Errors = Append(@, "failed to create transport")])
    /\ UNCHANGED <<now, env, tgStopped, closed, mu, latestRelease, state, cooldown,
                   calls, probes, panicked, hist, bg, dns, sv>>

\* testRHP3: ScanPriceTable has returned; on success the table is validated
RHP3Scan(c, failed, pt) ==
    /\ ~panicked
    /\ oldgen[c].pc = "rhp3scan"
    /\ LET r3 == resp[c].RHP3[1]
           scanned == [r3 EXCEPT !.ScanTime = now - oldgen[c].start, !.Scanned = TRUE,
                                 !.PriceTable = <<pt>>]
           out == ValidateRHP3(scanned, pt, calls[c].cs.Height)
       IN  IF failed
           THEN /\ OldStep(c, "done", 0, resp[c].RHP2[1],
                       [r3 EXCEPT !.Errors = Append(@, "failed to scan price table")])
                /\ panicked' = FALSE
           ELSE /\ panicked' = out.panic
                /\ OldStep(c, IF out.panic THEN "rhp3scan" ELSE "done", 0,
                           resp[c].RHP2[1], out.res)
    /\ UNCHANGED <<now, env, tgStopped, closed, mu, latestRelease, state, cooldown,
                   calls, probes, hist, bg, dns, sv>>

\* ------------------------------------------------------------ specification
NewerSettings == [GoodSettings EXCEPT !.Release = RelNew]

\* a payload whose storage price cannot be doubled in 128 bits
HugeSettings == [GoodSettings EXCEPT !.StoragePrice = HalfCurrency,
                                     !.Collateral = MaxCurrency]

\* release strings with an application name, a suffix, or no version at all
RelSame == <<"v", "1", ".", "6", ".", "0">>
RelPre == <<"v", "1", ".", "6", ".", "0", "-", "r", "c", "1">>
RelAppOld == <<"h", "o", "s", "t", "d", " ", "v", "1", ".", "5", ".", "0">>
RelAppNext == <<"h", "o", "s", "t", "d", " ", "v", "1", ".", "7", ".", "0">>
RelNone == <<"l", "a", "t", "e", "s", "t">>

ValidateReleases == {RelOld, RelNew, RelSame, RelPre, RelAppOld, RelAppNext, RelNone, <<>>}

\* collateral and storage price pairs on both sides of each comparison of the
\* collateral branch, and the pair whose storage price cannot be doubled
ValidatePrices ==
    {<<CurrencyOf(c), CurrencyOf(sp)>> : c \in {0, 5, 10, 19, 20, 21}, sp \in {0, 10}}
    \cup {<<MaxCurrency, HalfCurrency>>}

\* host tips on both sides of the tolerance around the manager's tip
ValidateHeights == {0, 7, 8, 10, 12, 13}

\* no two addresses of the list share a protocol
DistinctProtocols(addrs) ==
    \A i, j \in 1..Len(addrs) : i # j => addrs[i].Protocol # addrs[j].Protocol

\* the hosts the callers of a scenario submit
Hosts ==
    CASE env.scenario = "probe" ->
            {[PublicKey |-> "k1", RHP2NetAddress |-> "", RHP4NetAddresses |-> q] :
                q \in SeqsUpTo(NetAddresses, MaxAddrs)}
      [] env.scenario = "slots" ->
            {[PublicKey |-> "k1", RHP2NetAddress |-> "", RHP4NetAddresses |-> q] :
                q \in {a \in SeqsUpTo(NetAddresses, MaxAddrs) : DistinctProtocols(a)}}
      [] env.scenario = "shutdown" ->
            {[PublicKey |-> "k1", RHP2NetAddress |-> "good.example:9982",
              RHP4NetAddresses |-> <<[Address |-> "noport", Protocol |-> SiaMux]>>]}
      [] env.scenario = "close" ->
            {[PublicKey |-> "k1", RHP2NetAddress |-> "", RHP4NetAddresses |-> <<a>>] :
                a \in {b \in NetAddresses : b.Protocol \in {SiaMux, Quic}
                                             /\ SplitHostPort(b.Address).ok}}
      [] env.scenario = "refresh" ->
            {[PublicKey |-> "k1", RHP2NetAddress |-> "", RHP4NetAddresses |-> q] :
                q \in {<<[Address |-> "good.example:9984", Protocol |-> Quic]>>,
                       <<[Address |-> "good.example:9984", Protocol |-> SiaMux],
                         [Address |-> "good.example:9984", Protocol |-> Quic]>>}}
      [] env.scenario = "order" ->
            {[PublicKey |-> k, RHP2NetAddress |-> "",
              RHP4NetAddresses |-> <<[Address |-> "good.example:9984", Protocol |-> SiaMux],
                                     [Address |-> "good.example:9984", Protocol |-> Quic]>>] :
                k \in Keys}
      [] env.scenario = "mutex" ->
            {[PublicKey |-> "k1", RHP2NetAddress |-> "",
              RHP4NetAddresses |-> <<[Address |-> "good.example:9984", Protocol |-> "tcp"]>>]}
      [] env.scenario \in {"cooldown", "frame"} ->
            {[PublicKey |-> "k1", RHP2NetAddress |-> "",
              RHP4NetAddresses |-> <<[Address |-> "noport", Protocol |-> SiaMux]>>],
             [PublicKey |-> "k2", RHP2NetAddress |-> "", RHP4NetAddresses |-> <<>>]}
      [] env.scenario = "legacy" ->
            {[PublicKey |-> "k1", RHP2NetAddress |-> "good.example:9982",
              RHP4NetAddresses |-> q] :
                q \in SeqsUpTo({a \in NetAddresses :
                                  a.Protocol \in {SiaMux, Quic}
                                  /\ SplitHostPort(a.Address).ok}, 1)}
      [] env.scenario = "share" ->
            {[PublicKey |-> "k1", RHP2NetAddress |-> "good.example:9982",
              RHP4NetAddresses |-> <<[Address |-> "good.example:9984", Protocol |-> SiaMux],
                                     [Address |-> "good.example:9984", Protocol |-> Quic]>>]}
      [] env.scenario = "fork" ->
            {[PublicKey |-> "k1", RHP2NetAddress |-> "good.example:9982",
              RHP4NetAddresses |-> <<[Address |-> "noport", Protocol |-> SiaMux]>>]}
      [] env.scenario = "validate" ->
            IF env.legacy
            THEN {[PublicKey |-> "k1", RHP2NetAddress |-> "good.example:9982",
                   RHP4NetAddresses |-> <<>>]}
            ELSE {[PublicKey |-> "k1", RHP2NetAddress |-> "",
                   RHP4NetAddresses |-> <<[Address |-> "good.example:9984",
                                           Protocol |-> p]>>] :
                    p \in {SiaMux, Quic}}

\* the settings payloads the hosts of a scenario reply with
Payloads ==
    CASE env.scenario = "probe" -> {GoodSettings, NewerSettings, HugeSettings}
      [] env.scenario = "slots" -> {GoodSettings, NewerSettings}
      [] env.scenario = "cooldown" -> {GoodSettings}
      [] env.scenario = "close" -> {GoodSettings}
      [] env.scenario = "refresh" -> {GoodSettings}
      [] env.scenario = "mutex" -> {GoodSettings}
      [] env.scenario = "order" -> {GoodSettings, NewerSettings}
      [] env.scenario = "shutdown" -> {GoodSettings}
      [] env.scenario = "legacy" -> {NewerSettings}
      [] env.scenario = "fork" -> {GoodSettings}
      [] env.scenario = "frame" -> {GoodSettings}
      [] env.scenario = "share" -> {GoodSettings, NewerSettings}
      [] env.scenario = "validate" ->
            {[GoodSettings EXCEPT !.Collateral = p[1], !.StoragePrice = p[2]] :
                p \in ValidatePrices}
            \cup {[GoodSettings EXCEPT !.TipHeight = h] : h \in ValidateHeights}
            \cup {[GoodSettings EXCEPT !.Release = r] : r \in ValidateReleases}

\* the RHP2 settings and RHP3 price tables the hosts reply with
Payloads2 ==
    CASE env.scenario = "validate" ->
            {[GoodSettings2 EXCEPT !.Collateral = p[1], !.StoragePrice = p[2]] :
                p \in ValidatePrices}
            \cup {[GoodSettings2 EXCEPT !.Release = r] : r \in ValidateReleases}
            \cup {[GoodSettings2 EXCEPT !.NetAddress = a] :
                    a \in {"good.example:9984", "other.example:9982", "noport"}}
            \cup {[GoodSettings2 EXCEPT !.NetAddress = "other.example:9982",
                                        !.SiaMuxPort = "9993"]}
      [] OTHER -> {GoodSettings2, [GoodSettings2 EXCEPT !.NetAddress = "noport"]}

PriceTables ==
    CASE env.scenario = "validate" ->
            {[GoodPriceTable EXCEPT !.CollateralCost = p[1], !.WriteStoreCost = p[2]] :
                p \in ValidatePrices}
            \cup {[GoodPriceTable EXCEPT !.HostBlockHeight = h] : h \in ValidateHeights}
      [] OTHER -> {GoodPriceTable}

\* the steps of TestHost up to the first step of each probe
TestHostNext ==
    \/ \E c \in env.callers : \E host \in Hosts : TestHostStart(c, host)
    \/ \E c \in CallIds : TestHostLock(c)
    \/ \E c \in CallIds : TestHostCheck(c)
    \/ \E c \in CallIds : TestHostAccept(c)
    \/ \E c \in CallIds : TestHostFinish(c)
    \/ \E c \in CallIds : \E i \in 1..MaxAddrs : ProbeStart(c, i)

ManagerNext ==
    \/ Tick
    \/ TestHostNext
    \/ CloseBegin
    \/ BackgroundExit
    \/ CloseReturn

ProbeNext ==
    \E c \in CallIds : \E i \in 1..MaxAddrs :
        \/ \E outcome \in LookupOutcomes : ProbeResolve(c, i, outcome)
        \/ \E outcome \in {"ok"} \cup DialFailures : ProbeDial(c, i, outcome)
        \/ \E ok \in BOOLEAN : ProbeUpgrade(c, i, ok)
        \/ \E outcome \in QuicDialOutcomes : ProbeQuicDial(c, i, outcome)
        \/ \E settings \in Payloads : ProbeScan(c, i, FALSE, settings)
        \/ ProbeScan(c, i, TRUE, ZeroSettings)
        \/ ProbeSticky(c, i)

OldGenNext ==
    \E c \in CallIds :
        \/ \E outcome \in {"ok", "refused"} : RHP2Dial(c, outcome)
        \/ \E ok \in BOOLEAN : RHP2Lookup(c, ok)
        \/ \E ok \in BOOLEAN : RHP2Handshake(c, ok)
        \/ \E settings \in Payloads2 : \E failed \in BOOLEAN : RHP2Scan(c, failed, settings)
        \/ \E outcome \in {"ok", "refused"} : RHP3Dial(c, outcome)
        \/ \E ok \in BOOLEAN : RHP3Handshake(c, ok)
        \/ \E pt \in PriceTables : \E failed \in BOOLEAN : RHP3Scan(c, failed, pt)

\* release strings the release feed may return
RelNext == <<"v", "1", ".", "7", ".", "0">>
RelBad == <<"1", ".", "7">>

BackgroundNext ==
    \/ StateTick
    \/ \E h \in (state.Height + 1)..MaxHeight : StateFetched(TRUE, h)
    \/ StateFetched(FALSE, 0)
    \/ RefreshStateLock
    \/ RefreshState
    \/ VersionTick
    \/ \E releaseStr \in {RelNext, RelBad} : ReleaseFetched(TRUE, releaseStr)
    \/ ReleaseFetched(FALSE, <<>>)
    \/ RefreshReleaseLock
    \/ RefreshRelease

Next == ManagerNext \/ ProbeNext

LegacyNext == ManagerNext \/ ProbeNext \/ OldGenNext

\* one call for a host with up to MaxAddrs addresses
Init == InitWith([legacy |-> FALSE, callers |-> {1}, scenario |-> "probe"],
                 MaxTime - TickSize)

Spec == Init /\ [][Next]_vars

\* one call for a host whose addresses have pairwise distinct protocols and
\* whose settings are valid; no shutdown
InitSlots == InitWith([legacy |-> FALSE, callers |-> {1}, scenario |-> "slots"],
                      MaxTime - TickSize)

SpecSlots == InitSlots /\ [][Tick \/ TestHostNext \/ ProbeNext]_vars

\* concurrent calls; the one listed address does not parse, so its probe
\* ends without network I/O
InitCooldown == InitWith([legacy |-> FALSE, callers |-> CallIds, scenario |-> "cooldown"], 0)

SpecCooldown == InitCooldown /\ [][ManagerNext]_vars

\* the build that also tests RHP2 and RHP3: one call, at most one RHP4 address
InitLegacy == InitWith([legacy |-> TRUE, callers |-> {1}, scenario |-> "legacy"],
                       MaxTime - TickSize)

SpecLegacy == InitLegacy /\ [][LegacyNext]_vars

\* one call in either build, for a host with one RHP4 address in the current
\* build and with the RHP2 address alone in the other; the replies vary one
\* setting at a time and the clock stands still
InitValidate ==
    \E legacy \in BOOLEAN :
        InitWith([legacy |-> legacy, callers |-> {1}, scenario |-> "validate"], MaxTime)

SpecValidate == InitValidate /\ [][TestHostNext \/ ProbeNext \/ OldGenNext]_vars

\* steps that need nothing from outside the process
LocalSteps ==
    \/ \E c \in CallIds : TestHostLock(c) \/ TestHostCheck(c) \/ TestHostAccept(c)
                              \/ TestHostFinish(c)
    \/ \E c \in CallIds : \E i \in 1..MaxAddrs : ProbeStart(c, i) \/ ProbeSticky(c, i)
    \/ BackgroundExit
    \/ CloseReturn

\* blocking calls that carry a timeout of their own: the resolver lookups and
\* the dials through dialContext (2 minutes)
SelfTimedSteps ==
    \/ \E c \in CallIds : \E i \in 1..MaxAddrs :
          \/ \E outcome \in LookupOutcomes : ProbeResolve(c, i, outcome)
          \/ \E outcome \in {"ok"} \cup DialFailures : ProbeDial(c, i, outcome)
    \/ \E c \in CallIds :
          \/ \E outcome \in {"ok", "refused"} : RHP2Dial(c, outcome)
          \/ \E ok \in BOOLEAN : RHP2Lookup(c, ok)
          \/ \E outcome \in {"ok", "refused"} : RHP3Dial(c, outcome)

\* blocking calls that are given the context of the call: once the thread
\* group is stopped they return with an error
CancelledSteps ==
    /\ tgStopped
    /\ \/ \E c \in CallIds : \E i \in 1..MaxAddrs :
             \/ ProbeUpgrade(c, i, FALSE)
             \/ ProbeQuicDial(c, i, "other")
             \/ ProbeScan(c, i, TRUE, ZeroSettings)
       \/ \E c \in CallIds : \E pt \in PriceTables : RHP3Scan(c, TRUE, pt)

\* the build that also tests RHP2 and RHP3, one call whose RHP4 address does
\* not parse, with the progress the scheduler, the timeouts and the
\* cancellation guarantee; proto2.NewRenterTransport, rhp2.RPCSettings and
\* proto3.NewRenterTransport take no context and set no deadline, so nothing
\* guarantees that they return
InitShutdown == InitWith([legacy |-> TRUE, callers |-> {1}, scenario |-> "shutdown"],
                         MaxTime - TickSize)

SpecShutdown ==
    /\ InitShutdown
    /\ [][ManagerNext \/ OldGenNext]_vars
    /\ WF_vars(LocalSteps)
    /\ WF_vars(SelfTimedSteps)
    /\ WF_vars(CancelledSteps)

\* one call for a host with one address, the background goroutine refreshing
\* the cached state, and shutdown
InitClose == InitWith([legacy |-> FALSE, callers |-> {1}, scenario |-> "close"],
                      MaxTime - TickSize)

SpecClose == InitClose /\ [][ManagerNext \/ ProbeNext \/ BackgroundNext]_vars

\* the fetches of the background goroutine return on their own
BackgroundFetches ==
    \/ \E h \in 0..MaxHeight : StateFetched(TRUE, h)
    \/ StateFetched(FALSE, 0)
    \/ \E releaseStr \in {RelNext, RelBad} : ReleaseFetched(TRUE, releaseStr)
    \/ ReleaseFetched(FALSE, <<>>)

\* the current build under the same guarantees; the select of the background
\* goroutine picks among its ready cases at random, so the ctx.Done case is
\* taken sooner or later, and a goroutine waiting for the mutex gets it
SpecCloseFair ==
    /\ InitClose
    /\ [][ManagerNext \/ ProbeNext \/ BackgroundNext]_vars
    /\ WF_vars(LocalSteps)
    /\ WF_vars(SelfTimedSteps)
    /\ WF_vars(CancelledSteps)
    /\ WF_vars(BackgroundFetches)
    /\ WF_vars(RefreshState \/ RefreshRelease)
    /\ SF_vars(RefreshStateLock)
    /\ SF_vars(RefreshReleaseLock)
    /\ SF_vars(BackgroundExit)

\* one call for a host with one or two addresses while the background
\* goroutine refreshes the cached state; no shutdown
InitRefresh == InitWith([legacy |-> FALSE, callers |-> {1}, scenario |-> "refresh"],
                        MaxTime - TickSize)

SpecRefresh == InitRefresh /\ [][TestHostNext \/ ProbeNext \/ BackgroundNext]_vars

\* two calls for the same host, the second within the cooldown of the first,
\* while the background goroutine refreshes the cached state; the probe of the
\* host resolves the name and stops at the protocol switch. sync.Mutex hands
\* the mutex to a waiter that has waited for a millisecond (starvation mode),
\* so a Lock that can return again and again does return; the statements
\* between Lock and Unlock do not block
MutexCallers == {1, 2}

InitMutex == InitWith([legacy |-> FALSE, callers |-> MutexCallers, scenario |-> "mutex"],
                      MaxTime - TickSize)

\* the refreshes of the cached chain state whose fetch succeeds
StateRefreshNext ==
    \/ StateTick
    \/ \E h \in (state.Height + 1)..MaxHeight : StateFetched(TRUE, h)
    \/ RefreshStateLock
    \/ RefreshState

\* the build that also tests RHP2 and RHP3, one block below the allow height
\* while the background goroutine follows the chain: one call for a host whose
\* RHP4 address does not parse
InitFork == InitWith([legacy |-> TRUE, callers |-> {1}, scenario |-> "fork"], MaxTime)

SpecFork == InitFork /\ [][TestHostNext \/ OldGenNext \/ StateRefreshNext]_vars

\* the refreshes whose fetch succeeds
RefreshNext ==
    \/ StateTick
    \/ \E h \in (state.Height + 1)..MaxHeight : StateFetched(TRUE, h)
    \/ RefreshStateLock
    \/ RefreshState
    \/ VersionTick
    \/ ReleaseFetched(TRUE, RelNext)
    \/ RefreshReleaseLock
    \/ RefreshRelease

\* either build: two calls for hosts with an RHP4 address that does not parse
\* or with none, and with no RHP2 address, while the background goroutine
\* refreshes the cached chain state and the latest release
InitFrame ==
    \E legacy \in BOOLEAN :
        InitWith([legacy |-> legacy, callers |-> {1, 2}, scenario |-> "frame"],
                 MaxTime - TickSize)

FrameNext ==
    \/ Tick
    \/ TestHostNext
    \/ \E c \in CallIds : \E outcome \in {"ok", "refused"} : RHP2Dial(c, outcome)
    \/ RefreshNext

SpecFrame == InitFrame /\ [][FrameNext]_vars

SpecMutex ==
    /\ InitMutex
    /\ [][\/ TestHostNext
          \/ \E c \in MutexCallers : ProbeResolve(c, 1, "ok")
          \/ RefreshNext]_vars
    /\ \A c \in MutexCallers : SF_vars(TestHostLock(c))
    /\ SF_vars(RefreshStateLock)
    /\ SF_vars(RefreshReleaseLock)
    /\ WF_vars(\E c \in CallIds : TestHostCheck(c) \/ TestHostAccept(c))
    /\ WF_vars(RefreshState \/ RefreshRelease)

\* two runs of TestHost on hosts with the same two addresses, every stage of
\* every probe succeeding, the probes of each run finishing in any order
OrderCallers == {1, 2}

InitOrder == InitWith([legacy |-> FALSE, callers |-> OrderCallers, scenario |-> "order"],
                      MaxTime - TickSize)

OrderNext ==
    \/ TestHostNext
    \/ \E c \in OrderCallers : \E i \in 1..2 :
          \/ ProbeResolve(c, i, "ok")
          \/ ProbeDial(c, i, "ok")
          \/ ProbeUpgrade(c, i, TRUE)
          \/ ProbeQuicDial(c, i, "ok")
          \/ \E settings \in Payloads : ProbeScan(c, i, FALSE, settings)
          \/ ProbeSticky(c, i)

SpecOrder == InitOrder /\ [][OrderNext]_vars

\* the build that also tests RHP2 and RHP3: one call for a host with two RHP4
\* addresses whose probes succeed at every stage, beside the RHP2/RHP3
\* goroutine with every outcome
InitShare == InitWith([legacy |-> TRUE, callers |-> {1}, scenario |-> "share"], MaxTime)

ShareNext ==
    \/ TestHostNext
    \/ \E i \in 1..2 :
          \/ ProbeResolve(1, i, "ok")
          \/ ProbeDial(1, i, "ok")
          \/ ProbeUpgrade(1, i, TRUE)
          \/ ProbeQuicDial(1, i, "ok")
          \/ \E settings \in Payloads : ProbeScan(1, i, FALSE, settings)
          \/ ProbeSticky(1, i)
    \/ OldGenNext

SpecShare == InitShare /\ [][ShareNext]_vars

\* ---------------------------------------------------------- name resolution
\* dns.LookupIP is applied to the hostname
DnsLookupIP ==
    /\ dns.pc = "idle"
    /\ dns' = [dns EXCEPT !.pc = "lookup",
                          !.res = LookupIP(ZoneOf(dns.pick), dns.hostname)]
    /\ UNCHANGED <<now, env, tgStopped, closed, mu, latestRelease, state, cooldown,
                   calls, resp, probes, oldgen, panicked, hist, bg, sv>>

\* the resolve stage of testRHP4: lookupIPs is applied to the hostname and a
\* failure is turned into the error of the probe
ResolveStage(sys) ==
    /\ dns.pc = "idle"
    /\ LET r == lookupIPs(ZoneOf(dns.pick), dns.hostname, sys)
       IN  dns' = [dns EXCEPT !.pc = "probe", !.sys = sys, !.res = r,
                              !.probeError = IF r.err # "" THEN ResolveError(r.err)
                                             ELSE ""]
    /\ UNCHANGED <<now, env, tgStopped, closed, mu, latestRelease, state, cooldown,
                   calls, resp, probes, oldgen, panicked, hist, bg, sv>>

DnsNext ==
    \/ DnsLookupIP
    \/ \E sys \in {<<>>, <<IPv4Text>>} : ResolveStage(sys)

InitDns == InitWith([legacy |-> FALSE, callers |-> {}, scenario |-> "dns"], 0)

SpecDns == InitDns /\ [][DnsNext]_vars

\* ------------------------------------------- the resolve stage, call by call
\* the work resolve still has to do: calls of resolve and queries, in order
ResolveItem(hostname, depth) ==
    [kind |-> "resolve", hostname |-> hostname, type |-> "", depth |-> depth]

QueryItem(hostname, recordType, depth) ==
    [kind |-> "query", hostname |-> hostname, type |-> recordType, depth |-> depth]

QueryDeadlineLate(start) == start + 2 * QueryTimeout

\* the time by which the client gives up a query sent at start
QueryDeadline(start) == start + QueryTimeout

\* lookupIPs returns to testRHP4
ResolveReturn(d, ips, err) ==
    [d EXCEPT !.pc = IF err = "" THEN "resolved" ELSE "failed",
              !.todo = <<>>, !.ips = <<>>,
              !.res = [ips |-> ips, err |-> err, queries |-> d.sent],
              !.probeError = IF err # "" THEN ResolveError(err) ELSE ""]

RECURSIVE Advance(_)
\* the fallback runs up to its next exchange with the server: a query is
\* sent unless the context is done, and the stage returns when resolve
\* fails or has nothing left to do
Advance(d) ==
    IF d.todo = <<>>
    THEN IF Len(d.ips) = 0 THEN ResolveReturn(d, <<>>, "notfound")
         ELSE ResolveReturn(d, d.ips, "")
    ELSE LET item == Head(d.todo)
         IN  IF item.kind = "resolve"
             THEN IF item.depth > maxDepth THEN ResolveReturn(d, <<>>, "depth")
                  ELSE Advance([d EXCEPT !.todo =
                           <<QueryItem(item.hostname, "A", item.depth),
                             QueryItem(item.hostname, "AAAA", item.depth),
                             QueryItem(item.hostname, "CNAME", item.depth)>>
                           \o Tail(@)])
             ELSE IF d.ctxDone THEN ResolveReturn(d, <<>>, "query")
             ELSE [d EXCEPT !.pc = "query", !.qstart = now, !.sent = @ + 1]

\* the return of a blocking call, counted when the context was done before it
StageStep(d) == [d EXCEPT !.after = IF dns.ctxDone THEN @ + 1 ELSE @]

\* testRHP4 calls lookupIPs: net.LookupIP returns a literal address at once
\* and asks the system resolver for a name
ResolveBegin ==
    /\ dns.pc = "idle"
    /\ dns' = IF ParseIP(dns.hostname)
              THEN ResolveReturn(dns, <<dns.hostname>>, "")
              ELSE [dns EXCEPT !.pc = "system"]
    /\ UNCHANGED <<now, env, tgStopped, closed, mu, latestRelease, state, cooldown,
                   calls, resp, probes, oldgen, panicked, hist, bg, sv>>

\* net.LookupIP has returned, by an answer or by the resolver's own timeout;
\* on failure dns.LookupIP starts with resolve(hostname, 0)
SystemReturn(sys) ==
    /\ dns.pc = "system"
    /\ \E d \in {[dns EXCEPT !.sys = sys, !.todo = <<ResolveItem(dns.hostname, 0)>>]} :
          dns' = StageStep(IF sys # <<>> THEN ResolveReturn(d, sys, "")
                           ELSE Advance(d))
    /\ UNCHANGED <<now, env, tgStopped, closed, mu, latestRelease, state, cooldown,
                   calls, resp, probes, oldgen, panicked, hist, bg, sv>>

QueryOutcomes == {"answer", "timeout", "cancelled"}

\* client.ExchangeContext has returned: with the answer of the server, at the
\* deadline of the client, or because the context is done
QueryReturn(outcome) ==
    /\ dns.pc = "query"
    /\ outcome = "timeout" => now >= QueryDeadline(dns.qstart)
    /\ outcome = "cancelled" => dns.ctxDone
    /\ \E item \in {Head(dns.todo)} :
       \E ans \in {queryRecord(ZoneOf(dns.pick), item.hostname, item.type)} :
       \E took \in {now - dns.qstart} :
       \E d \in {[dns EXCEPT !.slowest = IF took > @ THEN took ELSE @]} :
       \E next \in {IF item.type = "CNAME"
                    THEN [d EXCEPT !.todo =
                             [k \in 1..Len(ans.results) |->
                                 ResolveItem(ans.results[k], item.depth + 1)]
                             \o Tail(@)]
                    ELSE [d EXCEPT !.todo = Tail(@),
                                   !.ips = @ \o SelectIPs(ans.results)]} :
          dns' = StageStep(IF outcome # "answer" \/ ~ans.ok
                           THEN ResolveReturn(d, <<>>, "query")
                           ELSE Advance(next))
    /\ UNCHANGED <<now, env, tgStopped, closed, mu, latestRelease, state, cooldown,
                   calls, resp, probes, oldgen, panicked, hist, bg, sv>>

\* a second passes while a query is in flight; the client's timer fires at
\* the deadline of the query
Elapse ==
    /\ dns.pc = "query"
    /\ now < MaxElapsed
    /\ now < QueryDeadline(dns.qstart)
    /\ now' = now + 1
    /\ UNCHANGED <<env, tgStopped, closed, mu, latestRelease, state, cooldown,
                   calls, resp, probes, oldgen, panicked, hist, bg, dns, sv>>

\* the context of the call is done: its timeout or the stop of the thread group
CtxDone ==
    /\ dns.pc \in {"idle", "system", "query"}
    /\ ~dns.ctxDone
    /\ dns' = [dns EXCEPT !.ctxDone = TRUE]
    /\ UNCHANGED <<now, env, tgStopped, closed, mu, latestRelease, state, cooldown,
                   calls, resp, probes, oldgen, panicked, hist, bg, sv>>

ResolveNext ==
    \/ ResolveBegin
    \/ \E sys \in {<<>>, <<IPv4Text>>} : SystemReturn(sys)
    \/ \E outcome \in QueryOutcomes : QueryReturn(outcome)
    \/ Elapse
    \/ CtxDone

InitResolve == InitWith([legacy |-> FALSE, callers |-> {}, scenario |-> "resolve"], 0)

\* the stage with the progress its blocking calls guarantee: the system
\* resolver and the client both give up on their own
SpecResolve ==
    /\ InitResolve
    /\ [][ResolveNext]_vars
    /\ WF_vars(ResolveBegin)
    /\ WF_vars(\E sys \in {<<>>, <<IPv4Text>>} : SystemReturn(sys))
    /\ WF_vars(\E outcome \in QueryOutcomes : QueryReturn(outcome))

\* ------------------------------------------------------------ SemVer steps
SvUnchanged ==
    UNCHANGED <<now, env, tgStopped, closed, mu, latestRelease, state, cooldown,
                calls, resp, probes, oldgen, panicked, hist, bg, dns>>

\* a.Cmp(b), b.Cmp(a), b.Cmp(c) and a.Cmp(c)
SvCmp ==
    /\ sv.pc = "idle"
    /\ sv.s = <<>>
    /\ sv' = [sv EXCEPT !.pc = "cmp",
                        !.ab = Cmp(sv.a, sv.b), !.ba = Cmp(sv.b, sv.a),
                        !.bc = Cmp(sv.b, sv.c), !.ac = Cmp(sv.a, sv.c)]
    /\ SvUnchanged

\* v.UnmarshalText(s) on a zero SemVer
SvUnmarshalText ==
    /\ sv.pc = "idle"
    /\ sv' = [sv EXCEPT !.pc = "parsed", !.parsed = UnmarshalText(sv.s)]
    /\ SvUnchanged

\* v.UnmarshalText(s) on the receiver a
SvUnmarshalInto ==
    /\ sv.pc = "idle"
    /\ sv' = [sv EXCEPT !.pc = "into", !.into = UnmarshalInto(sv.a, sv.s)]
    /\ SvUnchanged

\* v.String() of the value just parsed
SvString ==
    /\ sv.pc = "parsed"
    /\ sv.parsed.ok
    /\ sv' = [sv EXCEPT !.pc = "text", !.text = String(sv.parsed.v)]
    /\ SvUnchanged

\* UnmarshalText of the text just formatted, on a zero SemVer
SvReparse ==
    /\ sv.pc = "text"
    /\ sv' = [sv EXCEPT !.pc = "round", !.again = UnmarshalText(sv.text)]
    /\ SvUnchanged

SemVerNext == SvCmp \/ SvUnmarshalText \/ SvUnmarshalInto \/ SvString \/ SvReparse

InitSemVer == InitWith([legacy |-> FALSE, callers |-> {}, scenario |-> "semver"], 0)

SpecSemVer == InitSemVer /\ [][SemVerNext]_vars

\* ------------------------------------------------------------------ claims
Accepted(c) == hist[c].expiry > 0

Rejected(c) == calls[c].pc = "done" /\ calls[c].err = "host is on cooldown"

SameKey(c, d) == calls[c].host.PublicKey = calls[d].host.PublicKey

\* c performed its cooldown check after d had been accepted and before the
\* expiry d recorded
CheckedWithin(c, d) ==
    /\ c # d
    /\ Accepted(d)
    /\ calls[c].pc \in {"set", "wait", "done"}
    /\ hist[c].ticket > hist[d].ticket
    /\ SameKey(c, d)
    /\ hist[c].checkT < hist[d].expiry

\* C1: a call that performs its cooldown check before the expiry recorded by an
\* earlier accepted call for the same key returns the cooldown error and no
\* result, with a remaining duration in (0, window]
C1_CooldownRejects ==
    \A c, d \in CallIds :
        CheckedWithin(c, d) =>
            /\ Rejected(c)
            /\ resp[c] = ZeroResult
            /\ calls[c].remaining > 0
            /\ calls[c].remaining <= CooldownWindow

C1_Witness ==
    \E c, d \in CallIds :
        /\ CheckedWithin(c, d)
        /\ Rejected(c)
        /\ calls[c].remaining < CooldownWindow

\* C2 as stated: a call that started while no unexpired entry existed and was
\* still before its check when a concurrent call for the same key was
\* accepted always fails with the cooldown error
C2_Original ==
    \A c \in CallIds :
        (hist[c].startFree /\ hist[c].raced /\ calls[c].pc \in {"set", "wait", "done"})
            => Rejected(c)

\* C2 amended: check-and-set is atomic, so a call is accepted only if its check
\* happens at or after the expiry recorded by every same-key call accepted
\* before it; a rejected call was rejected by an accepted call whose window
\* had not expired; exactly the accepted calls launch probes
C2_OneAcceptedPerWindow ==
    /\ \A c, d \in CallIds :
          (c # d /\ Accepted(c) /\ Accepted(d) /\ SameKey(c, d)
                 /\ hist[d].ticket < hist[c].ticket)
              => hist[c].checkT >= hist[d].expiry
    /\ \A c \in CallIds :
          Rejected(c) => \E d \in CallIds : CheckedWithin(c, d)
    /\ \A c \in CallIds :
          /\ Accepted(c) => Len(probes[c]) = Len(calls[c].host.RHP4NetAddresses)
          /\ ~Accepted(c) => probes[c] = <<>>

C2_Witness ==
    \E c, d \in CallIds :
        /\ hist[c].raced /\ hist[c].startFree
        /\ Rejected(c)
        /\ CheckedWithin(c, d)
        /\ Len(probes[d]) > 0

\* C3: once Close has begun, a TestHost call returns the shutdown error at
\* once, with an empty result, no probe and the cooldown map unchanged
C3_ShutdownRejects ==
    [][\A c \in CallIds :
          (tgStopped /\ calls[c].pc = "idle" /\ calls'[c].pc # "idle") =>
              /\ calls'[c].pc = "done"
              /\ calls'[c].err = "threadgroup closed"
              /\ resp'[c] = ZeroResult
              /\ probes'[c] = <<>>
              /\ cooldown' = cooldown
              /\ mu' = mu]_vars

C3_Witness ==
    \E c \in CallIds :
        /\ tgStopped
        /\ calls[c].pc = "done"
        /\ calls[c].err = "threadgroup closed"
        /\ \E k \in Keys : cooldown[k] > 0

HasError(res, msg) == \E k \in 1..Len(res.Errors) : res.Errors[k] = msg

Returned(c) == calls[c].pc = "done" /\ calls[c].err = ""

\* C4: an accepted call on a host with N addresses of pairwise distinct
\* protocols returns exactly N results, result i being the result of address i
C4_OneResultPerAddress ==
    \A c \in CallIds :
        LET addrs == calls[c].host.RHP4NetAddresses
        IN  (Returned(c) /\ DistinctProtocols(addrs)) =>
                /\ Len(resp[c].RHP4) = Len(addrs)
                /\ \A i \in 1..Len(addrs) : resp[c].RHP4[i].NetAddress = addrs[i]

C4_Witness ==
    \E c \in CallIds :
        LET addrs == calls[c].host.RHP4NetAddresses
        IN  /\ Returned(c)
            /\ Len(addrs) >= 2
            /\ DistinctProtocols(addrs)
            /\ resp[c].RHP4[1].Scanned
            /\ ~resp[c].RHP4[2].Connected
            /\ resp[c].RHP4[2].Errors # <<>>

\* C5: the slot of an address whose protocol already occurred at an earlier
\* index carries the duplicate protocol error and no goroutine runs for it
C5_DuplicateProtocolSkipped ==
    \A c \in CallIds : \A i \in 1..Len(probes[c]) :
        LET addrs == calls[c].host.RHP4NetAddresses
        IN  (\E j \in 1..(i - 1) : addrs[j].Protocol = addrs[i].Protocol) =>
                /\ probes[c][i].pc = "none"
                /\ HasError(resp[c].RHP4[i], "duplicate protocol")
                /\ resp[c].RHP4[i].ResolvedAddresses = <<>>
                /\ ~resp[c].RHP4[i].Connected

ResolveFailed(res) ==
    \/ HasError(res, "failed to parse net address")
    \/ HasError(res, "DNS lookup failed: check DNS records or wait for propagation")
    \/ HasError(res, "failed to resolve host")

DialFailed(res) ==
    \/ \E cause \in DialFailures : HasError(res, DialError(cause))
    \/ HasError(res, "failed to connect to quic")
    \/ HasError(res, "failed to connect to quic: check port forwarding and firewall settings for UDP port")

HandshakeFailed(res) == HasError(res, "failed to connect to siamux")

ScanFailed(res) == HasError(res, "failed to get settings")

NoScan(res) ==
    ~res.Scanned /\ res.ScanTime = 0 /\ res.Settings = <<>> /\ res.Warnings = <<>>

NoHandshake(res) == ~res.Handshake /\ res.HandshakeTime = 0 /\ NoScan(res)

NoDial(res) == ~res.Connected /\ res.DialTime = 0 /\ NoHandshake(res)

\* C6: when a stage of a probe fails, the flag of that stage and of every later
\* stage stays false, the later durations stay zero, the payload stays unset
\* and the probe has no warnings
C6_FailedStageStopsProbe ==
    \A c \in CallIds : \A i \in 1..Len(probes[c]) :
        LET res == resp[c].RHP4[i]
        IN  probes[c][i].pc = "done" =>
                /\ ResolveFailed(res) => (res.ResolvedAddresses = <<>> /\ NoDial(res))
                /\ DialFailed(res) => NoDial(res)
                /\ HandshakeFailed(res) => NoHandshake(res)
                /\ ScanFailed(res) => NoScan(res)

\* C7: the stages of a probe run in order, each gated on the success of the
\* one before: connected only after resolving, handshake only when connected,
\* scanned only after the handshake and a successful settings query, and
\* validation findings only for a payload that was scanned successfully
C7_StagesInOrder ==
    \A c \in CallIds : \A i \in 1..Len(probes[c]) :
        LET res == resp[c].RHP4[i]
        IN  /\ res.Connected => res.ResolvedAddresses # <<>>
            /\ res.Handshake => res.Connected
            /\ res.Scanned => (res.Handshake /\ ~ScanFailed(res))
            /\ (res.Warnings # <<>> \/ res.Settings # <<>>) =>
                   (res.Scanned /\ ~ScanFailed(res))
            /\ probes[c][i].pc \in {"dial", "quicdial"} => res.ResolvedAddresses # <<>>
            /\ probes[c][i].pc = "handshake" => res.Connected
            /\ probes[c][i].pc = "scan" => res.Handshake

ScannedOk(res) == res.Scanned /\ res.Settings # <<>> /\ ~ScanFailed(res)

MultipleVersions(res) == HasError(res, "host is reporting multiple versions")

\* C8: the aggregate Version is the release of a successfully scanned RHP4
\* probe if there is one; if there is none and the RHP2 probe scanned
\* successfully, it is the release RHP2 reported
C8_AggregateVersion ==
    \A c \in CallIds :
        LET rs == resp[c].RHP4
            ok == {i \in 1..Len(rs) : ScannedOk(rs[i])}
        IN  Returned(c) =>
                IF ok # {}
                THEN \E i \in ok : resp[c].Version = rs[i].Settings[1].Release
                ELSE (resp[c].RHP2 # <<>> /\ resp[c].RHP2[1].Scanned) =>
                         resp[c].Version = resp[c].RHP2[1].Settings[1].Release

\* C9: after an accepted call returns, two successfully scanned probes with
\* different releases give at least one multiple versions error, and no probe
\* carries that error when all successfully scanned probes agree
C9_StickyVersion ==
    \A c \in CallIds :
        LET rs == resp[c].RHP4
            ok == {i \in 1..Len(rs) : ScannedOk(rs[i])}
        IN  Returned(c) =>
                /\ \A i, j \in ok :
                      rs[i].Settings[1].Release # rs[j].Settings[1].Release =>
                          (MultipleVersions(rs[i]) \/ MultipleVersions(rs[j]))
                /\ (\A i, j \in ok : rs[i].Settings[1].Release = rs[j].Settings[1].Release)
                      => \A i \in 1..Len(rs) : ~MultipleVersions(rs[i])

\* C10: no payload a host reports aborts the run
C10_NoPayloadAborts == ~panicked

\* C11: a finished call carries no error other than the cooldown and the
\* shutdown error, and a probe whose own stages all succeeded carries the
\* multiple versions error only when another probe scanned successfully and
\* reported a different release: a probe that failed adds nothing to it
C11_FailuresStayLocal ==
    \A c \in CallIds :
        LET rs == resp[c].RHP4
        IN  /\ calls[c].pc = "done" =>
                  calls[c].err \in {"", "host is on cooldown", "threadgroup closed"}
            /\ \A i \in 1..Len(rs) :
                  (ScannedOk(rs[i]) /\ MultipleVersions(rs[i])) =>
                      \E j \in 1..Len(rs) :
                          /\ j # i
                          /\ ScannedOk(rs[j])
                          /\ rs[j].Settings[1].Release # rs[i].Settings[1].Release

\* C12: once Close has returned, no TestHost call and no probe is running, the
\* background goroutine has exited, and the cached chain state and latest
\* release never change again
C12_CloseWaits ==
    /\ [](closed =>
            /\ bg.pc = "exited"
            /\ \A c \in CallIds :
                  /\ calls[c].pc \in {"idle", "done"}
                  /\ oldgen[c].pc \in {"none", "done"}
                  /\ \A i \in 1..Len(probes[c]) : probes[c][i].pc \in {"none", "done"})
    /\ [][closed => (state' = state /\ latestRelease' = latestRelease)]_vars

C12_Witness ==
    /\ closed
    /\ state.Height > 10
    /\ latestRelease.version = <<1, 7, 0>>
    /\ \E c \in CallIds : Returned(c) /\ Len(resp[c].RHP4) = 1 /\ resp[c].RHP4[1].Scanned

\* what a result has recorded is kept by the next step
Keeps(r, q) ==
    /\ r.Connected => (q.Connected /\ q.DialTime = r.DialTime)
    /\ r.Handshake => (q.Handshake /\ q.HandshakeTime = r.HandshakeTime)
    /\ r.Scanned => (q.Scanned /\ q.ScanTime = r.ScanTime)

\* C13: once Close is called it eventually returns, so every call and probe
\* in flight finishes, without an abort, and while a call runs its results
\* keep the resolved addresses, stage flags and durations already recorded
C13_ShutdownCompletes ==
    /\ tgStopped ~> closed
    /\ []~panicked
    /\ [][\A c \in CallIds :
            (calls[c].pc = "wait" /\ calls'[c].pc \in {"wait", "done"}) =>
                /\ \A i \in 1..Len(resp[c].RHP4) :
                      /\ Keeps(resp[c].RHP4[i], resp'[c].RHP4[i])
                      /\ resp[c].RHP4[i].ResolvedAddresses # <<>> =>
                            resp'[c].RHP4[i].ResolvedAddresses =
                                resp[c].RHP4[i].ResolvedAddresses
                /\ resp[c].RHP2 # <<>> =>
                      /\ Keeps(resp[c].RHP2[1], resp'[c].RHP2[1])
                      /\ Keeps(resp[c].RHP3[1], resp'[c].RHP3[1])]_vars

\* the alias targets the server holds for a set of names
Targets(zone, names) ==
    UNION {{zone[m].CNAME[k] : k \in 1..Len(zone[m].CNAME)} : m \in names}

RECURSIVE Level(_, _, _)
\* the names exactly n aliases away from the hostname
Level(zone, hostname, n) ==
    IF n = 0 THEN {Fqdn(hostname)} ELSE Targets(zone, Level(zone, hostname, n - 1))

\* the names within the recursion bound
WithinBound(zone, hostname) == UNION {Level(zone, hostname, n) : n \in 0..3}

\* some chain of aliases from the hostname is longer than the recursion bound
ChainTooLong(zone, hostname) == Level(zone, hostname, 4) # {}

\* C14: for a hostname with an alias chain longer than the bound, cyclic
\* chains included, LookupIP ends with an error that is not ErrNotFound, and
\* when every name has at most one alias it sends at most 3 queries on each of
\* at most 4 levels
C14_DepthBounded ==
    (dns.pc = "lookup" /\ dns.hostname = <<"h", "0">>) =>
        LET zone == ZoneOf(dns.pick)
        IN  /\ ChainTooLong(zone, dns.hostname) => dns.res.err \notin {"", "notfound"}
            /\ (\A m \in DOMAIN zone : Len(zone[m].CNAME) <= 1) => dns.res.queries <= 12

C14_Witness ==
    /\ dns.pc = "lookup"
    /\ \A i \in 0..(MaxNames - 1) : dns.pick[i] = "cname"
    /\ dns.res.err = "depth"
    /\ dns.res.queries = 12

\* C15: a literal address resolves to exactly itself, whatever the system
\* resolver and the server would answer, and no query is sent
C15_LiteralAddress ==
    (dns.pc \in {"lookup", "probe"} /\ dns.hostname \in {IPv4Text, IPv6Text}) =>
        /\ dns.res.ips = <<dns.hostname>>
        /\ dns.res.err = ""
        /\ dns.res.queries = 0

C15_Witness ==
    /\ dns.pc = "probe"
    /\ dns.hostname = IPv6Text
    /\ dns.sys = <<>>
    /\ dns.res.ips = <<IPv6Text>>

\* the addresses among the A and AAAA answers of a set of names
AddressesAt(zone, names) ==
    UNION {{zone[m].A[k] : k \in 1..Len(zone[m].A)}
             \cup {zone[m].AAAA[k] : k \in 1..Len(zone[m].AAAA)} : m \in names}
        \cap {IPv4Text, IPv6Text}

\* C16: LookupIP returns ErrNotFound exactly when no query to a name within
\* the bound fails, no chain exceeds the bound and no address is found; it
\* returns all addresses found when there are some; a failed query or an
\* exceeded bound gives another error, for which the probe reports the
\* generic resolve failure
C16_NotFoundExactly ==
    (dns.pc \in {"lookup", "probe"} /\ dns.hostname = <<"h", "0">> /\ dns.sys = <<>>) =>
        LET zone == ZoneOf(dns.pick)
            names == WithinBound(zone, dns.hostname)
            clean == /\ \A m \in names : zone[m].fail = {}
                     /\ ~ChainTooLong(zone, dns.hostname)
            found == AddressesAt(zone, names)
        IN  /\ dns.res.err = "notfound" <=> (clean /\ found = {})
            /\ (clean /\ found # {}) =>
                  /\ dns.res.err = ""
                  /\ {dns.res.ips[k] : k \in 1..Len(dns.res.ips)} = found
            /\ ~clean => dns.res.err \notin {"", "notfound"}
            /\ dns.pc = "probe" =>
                  /\ dns.res.err = "notfound" =>
                        dns.probeError =
                            "DNS lookup failed: check DNS records or wait for propagation"
                  /\ dns.res.err \notin {"", "notfound"} =>
                        dns.probeError = "failed to resolve host"

C16_Witness ==
    /\ dns.pc = "probe"
    /\ dns.pick[0] = "flat"
    /\ dns.pick[1] = "failcname"
    /\ dns.res.err = "query"
    /\ dns.probeError = "failed to resolve host"
\* C17: every text of the shape vMAJOR.MINOR.PATCH or vMAJOR.MINOR.PATCH-suffix
\* with components in 0..255 (an empty suffix after the dash and suffixes with
\* dashes included) is parsed successfully, and parsing the formatted value of
\* the parse gives the parse again
C17_RoundTrip ==
    /\ (sv.pc \in {"parsed", "text", "round"} /\ sv.s \in ValidTexts) => sv.parsed.ok
    /\ (sv.pc = "round" /\ sv.s \in ValidTexts) => sv.again = sv.parsed

C17_Witness ==
    /\ sv.pc = "round"
    /\ sv.s = <<"v", "0", "0", "7", ".", "2", "5", "5", ".", "0", "-", "r", "c", "-", "1">>
    /\ sv.text = <<"v", "7", ".", "2", "5", "5", ".", "0", "-", "r", "c", "-", "1">>
    /\ sv.again.ok

Sign(n) == IF n < 0 THEN -1 ELSE IF n > 0 THEN 1 ELSE 0

\* the lexicographic order of the (major, minor, patch) triples
TripleLess(x, y) ==
    \/ x[1] < y[1]
    \/ x[1] = y[1] /\ x[2] < y[2]
    \/ x[1] = y[1] /\ x[2] = y[2] /\ x[3] < y[3]

\* C18: Cmp is a strict total order: Cmp(a,b) and Cmp(b,a) have opposite signs,
\* Cmp(a,b) = 0 only when a and b have the same components and the same suffix,
\* Cmp(a,b) < 0 and Cmp(b,c) < 0 imply Cmp(a,c) < 0, and triples that differ
\* decide the sign by their lexicographic comparison alone
C18_StrictTotalOrder ==
    sv.pc = "cmp" =>
        /\ Sign(sv.ab) = -Sign(sv.ba)
        /\ sv.ab = 0 => sv.a = sv.b
        /\ (sv.ab < 0 /\ sv.bc < 0) => sv.ac < 0
        /\ sv.a.version # sv.b.version =>
               (sv.ab < 0 <=> TripleLess(sv.a.version, sv.b.version))

\* C19: with equal major, minor and patch, a value without suffix compares
\* greater than a value with a non-empty suffix, and the latter less than the
\* former
C19_ReleaseAbovePreRelease ==
    (/\ sv.pc = "cmp"
     /\ sv.a.version = sv.b.version
     /\ sv.a.suffix = <<>>
     /\ sv.b.suffix # <<>>) => (sv.ab > 0 /\ sv.ba < 0)

C19_Witness ==
    /\ sv.pc = "cmp"
    /\ sv.a = [version |-> <<MaxPart, 255, 1>>, suffix |-> <<>>]
    /\ sv.b = [version |-> <<MaxPart, 255, 1>>, suffix |-> <<"r", "c", "1">>]
    /\ sv.ab = 1
    /\ sv.ba = -1

\* a is below b in the order of versions: by the triples, and for equal
\* triples a value with a suffix is below the value without
Less(x, y) ==
    \/ TripleLess(x.version, y.version)
    \/ x.version = y.version /\ x.suffix # <<>> /\ y.suffix = <<>>

\* C20: Cmp returns exactly -1 if a < b, exactly 0 if a == b and exactly 1 if
\* a > b, and no other integer
C20_ExactlyMinusOneZeroOne ==
    sv.pc = "cmp" =>
        sv.ab = (IF Less(sv.a, sv.b) THEN -1 ELSE IF Less(sv.b, sv.a) THEN 1 ELSE 0)

\* C21: parsing fails, and never truncates modulo 256, when a component
\* exceeds 255; it fails for the empty text, a text that does not start with v
\* and a text without exactly three dot-separated numbers; on every failure the
\* value parsed into is left as it was
C21_ParseFailuresKeepValue ==
    sv.pc = "into" =>
        /\ sv.s \in OverflowTexts \cup MalformedTexts => ~sv.into.ok
        /\ ~sv.into.ok => sv.into.v = sv.a

C21_Witness ==
    /\ sv.pc = "into"
    /\ sv.s = <<"v", "2", "5", "6", ".", "0", ".", "0">>
    /\ sv.a = [version |-> <<MaxPart, 255, 1>>, suffix |-> <<"r", "c", "1">>]
    /\ ~sv.into.ok
    /\ sv.into.v = sv.a

\* C22: a probe of a host with one address whose resolve, dial, handshake and
\* settings query succeed with the payload {accepting contracts, max collateral
\* 100, storage price 10, collateral 25, duration 4320, release v1.5.0, tip
\* height of the snapshot}, under a latest release of v1.6.0, ends with
\* scanned set, no error and exactly one warning, the outdated version
C22_OutdatedOnly ==
    \A c \in CallIds : \A i \in 1..Len(probes[c]) :
        (/\ Len(calls[c].host.RHP4NetAddresses) = 1
         /\ Probe(c, i).pc = "done"
         /\ Res(c, i).Handshake
         /\ Res(c, i).Settings = <<GoodSettings>>
         /\ calls[c].latestRelease = [version |-> <<1, 6, 0>>, suffix |-> <<>>]
         /\ calls[c].cs.Height = GoodSettings.TipHeight)
        => /\ Res(c, i).Scanned
           /\ Res(c, i).Errors = <<>>
           /\ Res(c, i).Warnings = <<"host is running an outdated version">>

C22_Witness ==
    /\ calls[1].pc = "done"
    /\ Len(resp[1].RHP4) = 1
    /\ resp[1].RHP4[1].Connected
    /\ resp[1].RHP4[1].Settings = <<GoodSettings>>
    /\ resp[1].RHP4[1].Warnings = <<"host is running an outdated version">>
    /\ resp[1].Version = RelOld

\* C23: a QUIC probe whose dial gets no answer within the timeout ends with
\* connected, handshake and scanned unset, no settings, exactly one error, the
\* one that names UDP port forwarding and firewall settings, and no warning
C23_QuicUnanswered ==
    [][\A c \in CallIds : \A i \in 1..Len(probes[c]) :
          ProbeQuicDial(c, i, "no recent network activity") =>
              /\ probes'[c][i].pc = "done"
              /\ ~resp'[c].RHP4[i].Connected
              /\ ~resp'[c].RHP4[i].Handshake
              /\ ~resp'[c].RHP4[i].Scanned
              /\ resp'[c].RHP4[i].Settings = <<>>
              /\ resp'[c].RHP4[i].Errors =
                    <<"failed to connect to quic: check port forwarding and firewall settings for UDP port">>
              /\ resp'[c].RHP4[i].Warnings = <<>>]_vars

C23_Witness ==
    /\ calls[1].pc = "done"
    /\ Len(resp[1].RHP4) = 1
    /\ resp[1].RHP4[1].NetAddress.Protocol = Quic
    /\ resp[1].RHP4[1].ResolvedAddresses # <<>>
    /\ ~resp[1].RHP4[1].Connected
    /\ resp[1].RHP4[1].Errors =
          <<"failed to connect to quic: check port forwarding and firewall settings for UDP port">>
    /\ resp[1].Version = <<>>

\* the Manager fields as they were at the cooldown check of call c
AtCheck(c) == [latestRelease |-> hist[c].checkRelease, cs |-> hist[c].checkState]

\* C24: all probes of one TestHost call validate against the same chain tip
\* and the same latest release, the values the Manager held at the cooldown
\* check of the call; a refresh that updates the Manager while the run is in
\* flight changes the inputs of no probe
C24_OneSnapshot ==
    \A c \in CallIds : hist[c].used \subseteq {AtCheck(c)}

C24_Witness ==
    /\ calls[1].pc = "wait"
    /\ Len(probes[1]) = 2
    /\ probes[1][1].pc = "done" /\ resp[1].RHP4[1].Scanned
    /\ probes[1][2].pc = "sticky"
    /\ hist[1].used = {AtCheck(1)}
    /\ state.Height # hist[1].checkState.Height
    /\ latestRelease # hist[1].checkRelease

\* C25: a refresh step whose chain-state fetch fails, whose release fetch
\* fails or whose release does not parse leaves the cached chain state, the
\* cached release and the cooldown map as they were and the task running; a
\* tip refresh that succeeds changes the cached chain state only, a release
\* refresh that succeeds the cached release only
C25_RefreshFrame ==
    [][/\ (\/ StateFetched(FALSE, 0)
           \/ ReleaseFetched(FALSE, <<>>)
           \/ ReleaseFetched(TRUE, RelBad))
          => /\ bg'.pc = "select"
             /\ <<state, latestRelease, cooldown>>' = <<state, latestRelease, cooldown>>
       /\ state' # state
          => /\ bg.pc = "stateStore"
             /\ state'.Height = bg.cs
             /\ <<latestRelease, cooldown>>' = <<latestRelease, cooldown>>
       /\ latestRelease' # latestRelease
          => /\ bg.pc = "releaseStore"
             /\ latestRelease' = bg.release
             /\ <<state, cooldown>>' = <<state, cooldown>>
       /\ bg.pc \in {"stateFetch", "stateLock", "stateStore",
                      "releaseFetch", "releaseLock", "releaseStore"}
          => /\ bg'.pc # "exited"
             /\ bg'.pc # bg.pc => <<calls, resp, probes>>' = <<calls, resp, probes>>]_vars

C25_Witness ==
    /\ bg.pc = "select"
    /\ bg.warned = "failed to unmarshal latest release"
    /\ state.Height = MaxHeight
    /\ latestRelease = [version |-> <<1, 7, 0>>, suffix |-> <<>>]
    /\ cooldown["k1"] > 0
    /\ calls[1].pc = "wait"

\* call c has a goroutine inside a network call
CallDoesIO(c) ==
    \/ \E i \in 1..Len(probes[c]) :
          probes[c][i].pc \in {"resolve", "dial", "quicdial", "handshake", "scan"}
    \/ oldgen[c].pc \notin {"none", "done"}

\* the background goroutine is inside a fetch
BackgroundDoesIO == bg.pc \in {"stateFetch", "releaseFetch"}

\* the mutex is held by a task between its Lock and its Unlock only, and by
\* no task that is inside a network call or has left TestHost
MutexHeldBriefly ==
    /\ mu \in {0, Background} \cup CallIds
    /\ mu = Background <=> bg.pc \in {"stateStore", "releaseStore"}
    /\ mu = Background => ~BackgroundDoesIO
    /\ \A c \in CallIds :
          /\ mu = c <=> calls[c].pc \in {"check", "set"}
          /\ mu = c => ~CallDoesIO(c)

\* C26: no task holds the Manager mutex while it performs network I/O, the
\* mutex is released on every exit path of TestHost, the cooldown rejection
\* included, and no TestHost call and no refresh step waits for the mutex
\* forever
C26_MutexNeverAcrossIO ==
    /\ []MutexHeldBriefly
    /\ \A c \in CallIds : (calls[c].pc = "lock") ~> (calls[c].pc # "lock")
    /\ (bg.pc = "stateLock") ~> (bg.pc = "stateStore")
    /\ (bg.pc = "releaseLock") ~> (bg.pc = "releaseStore")

C26_Witness ==
    /\ calls[1].pc = "done"
    /\ calls[1].err = "host is on cooldown"
    /\ calls[2].pc = "wait"
    /\ CallDoesIO(2)
    /\ mu = Background
    /\ bg.pc = "stateStore"

\* C27: within one TestHost run the sticky reference version is assigned
\* exactly once if at least one probe obtained settings and never otherwise,
\* under every interleaving of the probes, and every probe that compares its
\* release against the reference does so after that assignment
C27_AssignedOnce ==
    \A c \in CallIds :
        LET rs == resp[c].RHP4
        IN  /\ hist[c].assigned <= 1
            /\ Returned(c) =>
                  (hist[c].assigned = 1 <=> \E i \in 1..Len(rs) : ScannedOk(rs[i]))
            /\ \A i \in 1..Len(rs) :
                  (probes[c][i].pc = "done" /\ rs[i].Settings # <<>>) =>
                      (hist[c].assigned = 1 /\ calls[c].rhp4VersionSet)

\* a probe result without the outcome of the sticky version check
RECURSIVE WithoutSticky(_)
WithoutSticky(errors) ==
    IF errors = <<>> THEN <<>>
    ELSE IF Head(errors) = "host is reporting multiple versions"
    THEN WithoutSticky(Tail(errors))
    ELSE <<Head(errors)>> \o WithoutSticky(Tail(errors))

ProbeOutcome(res) == [res EXCEPT !.Errors = WithoutSticky(@)]

\* the probes that carry the multiple versions error
Flagged(c) == {i \in 1..Len(resp[c].RHP4) : MultipleVersions(resp[c].RHP4[i])}

\* two returned runs whose probes had the same outcomes, address by address
SameOutcomes(c, d) ==
    /\ Returned(c) /\ Returned(d)
    /\ Len(resp[c].RHP4) = Len(resp[d].RHP4)
    /\ \A i \in 1..Len(resp[c].RHP4) :
          ProbeOutcome(resp[c].RHP4[i]) = ProbeOutcome(resp[d].RHP4[i])

\* C28: the outcome of the sticky version check does not depend on which
\* probe reaches the check first: runs whose probes have the same outcomes
\* have the same aggregate Version and the same probes carrying the multiple
\* versions error, whatever the order in which their probes finish
C28_OrderIndependent ==
    \A c, d \in CallIds :
        SameOutcomes(c, d) =>
            /\ resp[c].Version = resp[d].Version
            /\ Flagged(c) = Flagged(d)

\* the release the sticky version check of a call took as its reference
Reference(c) == calls[c].rhp4Version

\* C29: the aggregate Version of a returned call is the reference of its
\* sticky version check, the release of the probe that succeeded first, so
\* a probe carrying the multiple versions error never reports the release
\* that became the aggregate Version
C29_VersionIsReference ==
    \A c \in CallIds :
        Returned(c) =>
            /\ calls[c].rhp4VersionSet => resp[c].Version = Reference(c)
            /\ \A i \in Flagged(c) :
                  resp[c].RHP4[i].Settings[1].Release # resp[c].Version

\* lookupIPs has returned
ResolveFinished == dns.pc \in {"resolved", "failed"}

\* no query has been in flight for longer than the timeout of the client
QueryBounded ==
    /\ dns.pc = "query" => now - dns.qstart <= QueryTimeout
    /\ dns.slowest <= QueryTimeout

\* C30: the Resolve stage never blocks indefinitely: it always finishes, once
\* the context of the call is done it finishes within one more return of a
\* blocking call, whether it is in the system resolver or in the fallback,
\* and no fallback query is in flight for more than its 5 second timeout
C30_ResolveNeverBlocks ==
    /\ [](QueryBounded /\ dns.after <= 1)
    /\ <>ResolveFinished

\* the context was done while a later query of the fallback was in flight,
\* and the stage has finished one step later
C30_Witness ==
    /\ dns.pc = "failed"
    /\ dns.ctxDone
    /\ dns.after = 1
    /\ dns.sent >= 2
    /\ dns.slowest = QueryTimeout

\* ------------------------------------------------------------ C31 .. C39
\* prices that fit the lowest limb, and their value
IsSmall(c) == \A i \in 2..NumLimbs : c[i] = 0
SmallValue(c) == c[1]

RHP4CollateralMsgs ==
    <<"host has no collateral price",
      "host's collateral price is less than storage price",
      "host's collateral price is less than double the storage price">>

\* the warnings of ws that are among msgs
Among(ws, msgs) == {k \in 1..Len(ws) : \E m \in 1..Len(msgs) : ws[k] = msgs[m]}

\* at most one of the three collateral warnings msgs is in ws: the first when
\* the collateral is zero, else the second when it is below the storage price,
\* else the third when double the storage price exceeds it; none exactly when
\* the collateral is non-zero and at least double the storage price
CollateralVerdict(ws, msgs, collateral, storagePrice) ==
    LET got == Among(ws, msgs)
        c == SmallValue(collateral)
        sp == SmallValue(storagePrice)
    IN  /\ Cardinality(got) <= 1
        /\ (\E k \in got : ws[k] = msgs[1]) <=> c = 0
        /\ (\E k \in got : ws[k] = msgs[2]) <=> (c # 0 /\ c < sp)
        /\ (\E k \in got : ws[k] = msgs[3]) <=> (c # 0 /\ c >= sp /\ 2 * sp > c)
        /\ got = {} <=> (c # 0 /\ c >= 2 * sp)

\* C31: for every scanned payload with bounded prices, of RHP4 settings, RHP2
\* settings and RHP3 price tables alike, the validation yields at most one
\* collateral warning, chosen in the priority zero collateral, collateral
\* below the storage price, double the storage price above the collateral, and
\* none exactly when the collateral is non-zero and at least double the
\* storage price
C31_CollateralPriority ==
    \A c \in CallIds :
        /\ \A i \in 1..Len(probes[c]) :
              (/\ Probe(c, i).pc = "done"
               /\ ScannedOk(Res(c, i))
               /\ IsSmall(Res(c, i).Settings[1].Collateral)
               /\ IsSmall(Res(c, i).Settings[1].StoragePrice))
              => CollateralVerdict(Res(c, i).Warnings, RHP4CollateralMsgs,
                                   Res(c, i).Settings[1].Collateral,
                                   Res(c, i).Settings[1].StoragePrice)
        /\ (/\ resp[c].RHP2 # <<>>
             /\ oldgen[c].pc # "rhp2scan"
             /\ resp[c].RHP2[1].Scanned
             /\ IsSmall(resp[c].RHP2[1].Settings[1].Collateral)
             /\ IsSmall(resp[c].RHP2[1].Settings[1].StoragePrice))
            => CollateralVerdict(resp[c].RHP2[1].Warnings, OldCollateralMsgs,
                                 resp[c].RHP2[1].Settings[1].Collateral,
                                 resp[c].RHP2[1].Settings[1].StoragePrice)
        /\ (/\ resp[c].RHP3 # <<>>
             /\ oldgen[c].pc = "done"
             /\ resp[c].RHP3[1].Scanned
             /\ IsSmall(resp[c].RHP3[1].PriceTable[1].CollateralCost)
             /\ IsSmall(resp[c].RHP3[1].PriceTable[1].WriteStoreCost))
            => CollateralVerdict(resp[c].RHP3[1].Warnings, OldCollateralMsgs,
                                 resp[c].RHP3[1].PriceTable[1].CollateralCost,
                                 resp[c].RHP3[1].PriceTable[1].WriteStoreCost)

\* an RHP2 scan finished with the third warning and an RHP3 scan with the second
C31_Witness ==
    /\ resp[1].RHP2 # <<>>
    /\ resp[1].RHP2[1].Scanned
    /\ resp[1].RHP2[1].Settings[1].Collateral = CurrencyOf(19)
    /\ resp[1].RHP2[1].Settings[1].StoragePrice = CurrencyOf(10)
    /\ resp[1].RHP2[1].Warnings = <<OldCollateralMsgs[3], "host is running an outdated version">>
    /\ resp[1].RHP3 # <<>>
    /\ oldgen[1].pc = "done"
    /\ resp[1].RHP3[1].Scanned
    /\ resp[1].RHP3[1].Warnings = <<OldCollateralMsgs[2]>>

TipHeightMsg == "host's tip height is less than the current tip height"

\* C32: a scanned RHP4 probe carries the chain-height error exactly when the
\* host's tip is tipTolerance blocks or more away from the snapshotted tip,
\* behind it or ahead of it alike (the difference is taken from the larger
\* height, so it never wraps), and the finding is an error, never a warning
C32_TipHeightError ==
    \A c \in CallIds : \A i \in 1..Len(probes[c]) :
        (Probe(c, i).pc = "done" /\ ScannedOk(Res(c, i))) =>
            LET host == Res(c, i).Settings[1].TipHeight
                tip == calls[c].cs.Height
            IN  /\ HasError(Res(c, i), TipHeightMsg)
                      <=> (host + tipTolerance <= tip \/ tip + tipTolerance <= host)
                /\ \A k \in 1..Len(Res(c, i).Warnings) : Res(c, i).Warnings[k] # TipHeightMsg
                /\ Cardinality({k \in 1..Len(Res(c, i).Errors) :
                                   Res(c, i).Errors[k] = TipHeightMsg}) <= 1

\* a probe of a host exactly tipTolerance blocks behind ends with the error
C32_Witness ==
    /\ Len(probes[1]) = 1
    /\ Probe(1, 1).pc = "done"
    /\ ScannedOk(Res(1, 1))
    /\ Res(1, 1).Settings[1].TipHeight + tipTolerance = calls[1].cs.Height
    /\ Res(1, 1).Errors = <<TipHeightMsg>>

OutdatedMsg == "host is running an outdated version"
UnknownMsg == "host is running an unknown version"

\* the release without the application name in front of it
StripApp(text) ==
    IF Index(text, " ") < 0 THEN text
    ELSE SubSeq(text, Index(text, " ") + 2, Len(text))

\* the version warnings of ws fit the release reported under the latest
\* release: the outdated warning exactly when the stripped release parses and
\* is below latest, the unknown warning exactly when it does not parse, and
\* never both nor one twice
VersionVerdict(ws, release, latest) ==
    LET parsed == UnmarshalText(StripApp(release))
    IN  /\ Cardinality(Among(ws, <<OutdatedMsg, UnknownMsg>>)) <= 1
        /\ (\E k \in 1..Len(ws) : ws[k] = OutdatedMsg)
              <=> (parsed.ok /\ Less(parsed.v, latest))
        /\ (\E k \in 1..Len(ws) : ws[k] = UnknownMsg) <=> ~parsed.ok

\* C33: a scanned probe (RHP4, and RHP2 where it is tested) carries the
\* outdated-version warning exactly when the reported release, after an
\* optional leading application name is stripped, parses and compares lower
\* than the snapshotted latest release; an equal or newer release gives no
\* version warning, and a release that does not parse gives exactly one
\* warning, the unknown-version one, and no error
C33_VersionWarning ==
    \A c \in CallIds :
        /\ \A i \in 1..Len(probes[c]) :
              (Probe(c, i).pc = "done" /\ ScannedOk(Res(c, i))) =>
                  /\ VersionVerdict(Res(c, i).Warnings, Res(c, i).Settings[1].Release,
                                    calls[c].latestRelease)
                  /\ (/\ ~UnmarshalText(StripApp(Res(c, i).Settings[1].Release)).ok
                       /\ Res(c, i).Settings[1] =
                              [GoodSettings EXCEPT !.Release = Res(c, i).Settings[1].Release])
                      => (Res(c, i).Errors = <<>> /\ Res(c, i).Warnings = <<UnknownMsg>>)
        /\ (/\ resp[c].RHP2 # <<>>
             /\ oldgen[c].pc # "rhp2scan"
             /\ resp[c].RHP2[1].Scanned)
            => /\ VersionVerdict(resp[c].RHP2[1].Warnings,
                                 resp[c].RHP2[1].Settings[1].Release,
                                 calls[c].latestRelease)
               /\ ~UnmarshalText(StripApp(resp[c].RHP2[1].Settings[1].Release)).ok
                      => resp[c].RHP2[1].Errors = <<>>

\* a probe of a host that reports an older release with the application name
\* in front, checked against a latest release that carries a suffix
C33_Witness ==
    /\ Len(probes[1]) = 1
    /\ Probe(1, 1).pc = "done"
    /\ ScannedOk(Res(1, 1))
    /\ Res(1, 1).Settings[1].Release = RelAppOld
    /\ Res(1, 1).Warnings = <<OutdatedMsg>>
    /\ calls[1].latestRelease.suffix # <<>>

AddressMsg == "announced net address does not match settings"

HasWarning(res, msg) == \E k \in 1..Len(res.Warnings) : res.Warnings[k] = msg

\* the RHP2 probe of call c has scanned and validated settings
RHP2Validated(c) ==
    /\ resp[c].RHP2 # <<>>
    /\ oldgen[c].pc # "rhp2scan"
    /\ resp[c].RHP2[1].Scanned

BelowAllowHeight(c) == calls[c].cs.Height < calls[c].cs.AllowHeight

\* C35: in the build that tests them, the RHP2 and RHP3 results are present in
\* the result of an accepted call exactly when the snapshotted tip is below
\* the hard-fork allow height; at or above it both fields are absent and the
\* RHP2/RHP3 goroutine never exists, so nothing of these generations is dialed
C35_OldGenerationsBelowAllowHeight ==
    \A c \in CallIds :
        /\ Accepted(c) =>
              /\ resp[c].RHP2 # <<>> <=> BelowAllowHeight(c)
              /\ resp[c].RHP3 # <<>> <=> BelowAllowHeight(c)
              /\ ~BelowAllowHeight(c) => oldgen[c].pc = "none"
        /\ ~Accepted(c) =>
              (resp[c].RHP2 = <<>> /\ resp[c].RHP3 = <<>> /\ oldgen[c].pc = "none")

\* a call accepted at the allow height has returned without the two fields
C35_Witness ==
    /\ calls[1].pc = "done"
    /\ calls[1].err = ""
    /\ calls[1].cs.Height = calls[1].cs.AllowHeight
    /\ resp[1].RHP2 = <<>>
    /\ resp[1].RHP3 = <<>>
    /\ Len(resp[1].RHP4) = 1

RHP3Stages == {"rhp3dial", "rhp3handshake", "rhp3scan"}

\* the RHP2 probe of call c has ended without settings
RHP2Failed(c) ==
    /\ resp[c].RHP2 # <<>>
    /\ oldgen[c].pc = "done"
    /\ resp[c].RHP2[1].Settings = <<>>

OldGenerationsInOrder(c) ==
    /\ (oldgen[c].pc \in RHP3Stages
           \/ hist[c].rhp3Addr # ""
           \/ (resp[c].RHP3 # <<>> /\ resp[c].RHP3[1] # ZeroRHP3Result))
        => (/\ resp[c].RHP2[1].Scanned
            /\ resp[c].RHP2[1].Settings # <<>>
            /\ resp[c].RHP2[1].Errors = <<>>)
    /\ hist[c].rhp3Addr # "" =>
          hist[c].rhp3Addr =
              JoinHostPort(SplitHostPort(resp[c].RHP2[1].Settings[1].NetAddress).host,
                           resp[c].RHP2[1].Settings[1].SiaMuxPort)
    /\ RHP2Failed(c) =>
          (hist[c].rhp3Addr = "" /\ resp[c].RHP3[1] = ZeroRHP3Result)

\* C36: the RHP3 probe starts only after the RHP2 probe of the same call has
\* finished with settings (the RHP2 result no longer changes once RHP3 runs);
\* it dials the host part of the net address of those settings joined with
\* their mux port; after an RHP2 probe that failed at any stage nothing is
\* dialed for RHP3 and the RHP3 result keeps its flags false, with no error
\* and no warning
C36_RHP3AfterRHP2 ==
    [][\A c \in CallIds :
          /\ OldGenerationsInOrder(c)'
          /\ oldgen[c].pc \in RHP3Stages => resp'[c].RHP2 = resp[c].RHP2]_vars

\* RHP3 was dialed at the announced host, which is not the host of the request
C36_Witness ==
    /\ oldgen[1].pc = "done"
    /\ hist[1].rhp3Addr = "other.example:9993"
    /\ calls[1].host.RHP2NetAddress = "good.example:9982"
    /\ resp[1].RHP3[1].Scanned

\* the name of the address resolved: no lookup failure is recorded, and a dial
\* that was refused had an address to connect to
RHP4Resolved(res) == SplitHostPort(res.NetAddress.Address).ok /\ ~ResolveFailed(res)

RHP2Resolved(c) ==
    /\ SplitHostPort(calls[c].host.RHP2NetAddress).ok
    /\ \/ resp[c].RHP2[1].Connected /\ ~HasError(resp[c].RHP2[1], "failed to resolve host")
       \/ HasError(resp[c].RHP2[1], DialError("refused"))

\* C37: a finished probe of any generation whose hostname resolves lists every
\* resolved IP in its result, whatever happened in the later stages, a failed
\* dial included
C37_ResolvedAlwaysRecorded ==
    \A c \in CallIds :
        /\ \A i \in 1..Len(probes[c]) :
              (Probe(c, i).pc = "done" /\ RHP4Resolved(Res(c, i))) =>
                  Res(c, i).ResolvedAddresses =
                      ResolvedIPs(SplitHostPort(Res(c, i).NetAddress.Address).host)
        /\ (resp[c].RHP2 # <<>> /\ oldgen[c].pc = "done" /\ RHP2Resolved(c)) =>
              resp[c].RHP2[1].ResolvedAddresses =
                  ResolvedIPs(SplitHostPort(calls[c].host.RHP2NetAddress).host)

\* a step of the TestHost call c or of one of its goroutines
TestHostStep(c) ==
    \/ calls'[c] # calls[c]
    \/ resp'[c] # resp[c]
    \/ probes'[c] # probes[c]
    \/ oldgen'[c] # oldgen[c]

\* C38: TestHost changes at most the cooldown entry of its own key: a call
\* that is rejected leaves the whole map as it was, a call that is accepted
\* sets the expiry of its own key alone, to the time of the acceptance plus
\* the window of the build, and nothing the call or its probes do afterwards
\* changes the map again; the entries of other keys, the cached chain state
\* and the latest release are never changed by a call
C38_TestHostFrame ==
    [][\A c \in CallIds :
          LET key == calls[c].host.PublicKey
              window == IF env.legacy THEN LegacyCooldownWindow ELSE CooldownWindow
          IN  TestHostStep(c) =>
                /\ state' = state
                /\ latestRelease' = latestRelease
                /\ IF calls[c].pc = "set"
                   THEN cooldown' = [k \in Keys |->
                                        IF k = key THEN now + window ELSE cooldown[k]]
                   ELSE cooldown' = cooldown
                /\ calls'[c].err = "host is on cooldown" => cooldown' = cooldown]_vars

\* a call for the first key was accepted and one for the same key rejected,
\* the other key is untouched, and the background goroutine has meanwhile
\* replaced the state and the release
C38_Witness ==
    /\ calls[1].pc = "done"
    /\ calls[2].pc = "done"
    /\ calls[1].err = ""
    /\ calls[2].err = "host is on cooldown"
    /\ calls[1].host.PublicKey = "k1"
    /\ calls[2].host.PublicKey = "k1"
    /\ cooldown["k1"] = hist[1].expiry
    /\ cooldown["k2"] = 0
    /\ state # calls[1].cs
    /\ latestRelease # calls[1].latestRelease

\* the goroutine of slot i of call c is running
Running(c, i) == i \in 1..Len(probes[c]) /\ probes[c][i].pc \notin {"none", "done"}

\* C39: the goroutines of a call share nothing they write but the sticky
\* version, which is written once: a slot of the RHP4 results changes only in
\* a step of its own running probe, the RHP2 and RHP3 results only in a step
\* of the RHP2/RHP3 goroutine, no step of one call changes the result of
\* another, and the Version is written only when every goroutine of the call
\* has finished
C39_ProbesShareNothing ==
    [][\A c \in CallIds :
          /\ calls[c].pc = "wait" =>
                /\ Len(resp'[c].RHP4) = Len(resp[c].RHP4)
                /\ \A j \in 1..Len(resp[c].RHP4) :
                      resp'[c].RHP4[j] # resp[c].RHP4[j] =>
                          (Running(c, j) /\ probes'[c][j] # probes[c][j])
                /\ (resp'[c].RHP2 # resp[c].RHP2 \/ resp'[c].RHP3 # resp[c].RHP3) =>
                      (/\ oldgen[c].pc \notin {"none", "done"}
                       /\ probes'[c] = probes[c])
                /\ Cardinality({j \in 1..Len(probes[c]) : probes'[c][j] # probes[c][j]}) <= 1
                /\ calls'[c].rhp4Version # calls[c].rhp4Version => ~calls[c].rhp4VersionSet
                /\ resp'[c].Version # resp[c].Version =>
                      (/\ \A j \in 1..Len(probes[c]) : ~Running(c, j)
                       /\ oldgen[c].pc \in {"none", "done"})
          /\ resp'[c] # resp[c] =>
                (calls'[c] # calls[c] \/ probes'[c] # probes[c] \/ oldgen'[c] # oldgen[c])]_vars

\* both probes and the RHP2/RHP3 goroutine have written their own results, the
\* second probe differs from the sticky version, and the call has returned
C39_Witness ==
    /\ calls[1].pc = "done"
    /\ Len(resp[1].RHP4) = 2
    /\ ScannedOk(resp[1].RHP4[1])
    /\ ScannedOk(resp[1].RHP4[2])
    /\ resp[1].RHP4[1].NetAddress.Protocol = SiaMux
    /\ resp[1].RHP4[2].NetAddress.Protocol = Quic
    /\ MultipleVersions(resp[1].RHP4[1])
    /\ resp[1].RHP4[1].Settings # resp[1].RHP4[2].Settings
    /\ resp[1].RHP2 # <<>>
    /\ resp[1].RHP3[1].Scanned

====
